---- MODULE Spec2Model ----
(***************************************************************************)
(* Addon reconciliation engine of the Stremio account manager: the addon   *)
(* store (saved-addon library, per-account provenance ledger, bulk apply   *)
(* and bulk remove, account-state sync), the merge and removal engines it  *)
(* calls, and the remote addon collections it reads and writes.            *)
(***************************************************************************)
EXTENDS Integers, Sequences, FiniteSets, TLC

\* ------------------------------------------------------------------ bounds
MaxAccounts == 2      \* accounts known to the manager
MaxOps == 1           \* store operations started in one behaviour of the orchestrator
MaxLen == 2           \* longest collection / template list given to the pure engines

\* ------------------------------------------------------------ data domains
Accounts == 1..MaxAccounts
SavedIds == {1, 2}
ManifestIds == {"X", "Y"}
Urls == {"u1", "u2", "u3"}
Versions == {"v1", "v2"}
Strategies == {"replace-matching", "add-only"}

\* savedAddonId: null
NoId == 0
\* lastUsed: undefined
Never == 0

\* The addon a transport URL serves (two URLs serve X, one serves Y).
IdServedAt(url) == CASE url = "u2" -> "Y" [] url = "u4" -> "Z" [] OTHER -> "X"

Manifest(id, version) == [id |-> id, version |-> version]

\* AddonDescriptor: transportUrl, manifest, flags.protected (absent flags = FALSE).
Descriptor(url, version, prot) ==
    [transportUrl |-> url, manifest |-> Manifest(IdServedAt(url), version), protected |-> prot]

Descriptors == {Descriptor(u, v, p) : u \in Urls, v \in Versions, p \in BOOLEAN}

\* SavedAddon: id, installUrl, manifest, tags, lastUsed.
SavedAddon(id, url, version, tags, lastUsed) ==
    [id |-> id, installUrl |-> url, manifest |-> Manifest(IdServedAt(url), version),
     tags |-> tags, lastUsed |-> lastUsed]

\* ---------------------------------------------------------------- helpers
Range(s) == {s[i] : i \in 1..Len(s)}

IdsOf(addons) == [i \in 1..Len(addons) |-> addons[i].manifest.id]

UniqueIds(addons) ==
    \A i, j \in 1..Len(addons) : addons[i].manifest.id = addons[j].manifest.id => i = j

\* Array.prototype.findIndex on manifest.id; 0 when absent.
IndexOfId(addons, id) ==
    IF \E i \in 1..Len(addons) : addons[i].manifest.id = id
    THEN CHOOSE i \in 1..Len(addons) :
            /\ addons[i].manifest.id = id
            /\ \A j \in 1..(i - 1) : addons[j].manifest.id # id
    ELSE 0

\* Sequences over S of length at most n, without repeated elements.
InjSeqs(S, n) ==
    UNION {{s \in [1..k -> S] : \A i, j \in 1..k : s[i] = s[j] => i = j} : k \in 0..n}

\* ------------------------------------------------- merge engine (spec 4.1)
EmptyMergeResult == [added |-> <<>>, updated |-> <<>>, skipped |-> <<>>, protected |-> <<>>]

\* The descriptor a template installs: transportUrl = installUrl, the template's
\* manifest, no flags.
FromTemplate(t) ==
    [transportUrl |-> t.installUrl, manifest |-> t.manifest, protected |-> FALSE]

\* Mutant of MergeStep: the protected check is missing.
MergeStepNoProtect(acc, t, strategy) ==
    LET idx == IndexOfId(acc.addons, t.manifest.id)
        id == t.manifest.id
    IN  IF idx = 0
        THEN [addons |-> Append(acc.addons, FromTemplate(t)),
              result |-> [acc.result EXCEPT !.added = Append(@, id)]]
        ELSE IF strategy = "replace-matching"
        THEN [addons |-> [acc.addons EXCEPT ![idx] = FromTemplate(t)],
              result |-> [acc.result EXCEPT !.updated = Append(@, id)]]
        ELSE [addons |-> acc.addons,
              result |-> [acc.result EXCEPT !.skipped = Append(@, id)]]

\* Mutant of MergeStep: a replaced addon is removed and re-added at the tail.
MergeStepMoveToTail(acc, t, strategy) ==
    LET idx == IndexOfId(acc.addons, t.manifest.id)
        id == t.manifest.id
    IN  IF idx = 0
        THEN [addons |-> Append(acc.addons, FromTemplate(t)),
              result |-> [acc.result EXCEPT !.added = Append(@, id)]]
        ELSE IF acc.addons[idx].protected
        THEN [addons |-> acc.addons,
              result |-> [acc.result EXCEPT !.protected = Append(@, id)]]
        ELSE IF strategy = "replace-matching"
        THEN [addons |-> Append(SelectSeq(acc.addons, LAMBDA d : d.manifest.id # id),
                                FromTemplate(t)),
              result |-> [acc.result EXCEPT !.updated = Append(@, id)]]
        ELSE [addons |-> acc.addons,
              result |-> [acc.result EXCEPT !.skipped = Append(@, id)]]

\* One template of the merge loop: look the template's manifest.id up in the
\* collection being built; a protected match is recorded under protected and left
\* alone under either strategy; otherwise replace in place (replace-matching), skip
\* (add-only), or append when the id is absent.
MergeStep(acc, t, strategy) ==
    LET idx == IndexOfId(acc.addons, t.manifest.id)
        id == t.manifest.id
    IN  IF idx = 0
        THEN [addons |-> Append(acc.addons, FromTemplate(t)),
              result |-> [acc.result EXCEPT !.added = Append(@, id)]]
        ELSE IF acc.addons[idx].protected
        THEN [addons |-> acc.addons,
              result |-> [acc.result EXCEPT !.protected = Append(@, id)]]
        ELSE IF strategy = "replace-matching"
        THEN [addons |-> [acc.addons EXCEPT ![idx] = FromTemplate(t)],
              result |-> [acc.result EXCEPT !.updated = Append(@, id)]]
        ELSE [addons |-> acc.addons,
              result |-> [acc.result EXCEPT !.skipped = Append(@, id)]]

RECURSIVE MergeFrom(_, _, _, _)
MergeFrom(acc, savedAddons, i, strategy) ==
    IF i > Len(savedAddons) THEN acc
    ELSE MergeFrom(MergeStep(acc, savedAddons[i], strategy), savedAddons, i + 1, strategy)

\* mergeAddons(currentAddons, savedAddons, strategy) -> {addons, result}
mergeAddons(currentAddons, savedAddons, strategy) ==
    MergeFrom([addons |-> currentAddons, result |-> EmptyMergeResult], savedAddons, 1, strategy)

\* ----------------------------------------------- removal engine (spec 4.2)
IsProtectedIn(addons, id) ==
    \E i \in 1..Len(addons) : addons[i].manifest.id = id /\ addons[i].protected

\* Mutant of removeAddons: protection is reported but not honoured.
removeAddonsDropProtected(currentAddons, addonIds) ==
    [addons |-> SelectSeq(currentAddons, LAMBDA d : d.manifest.id \notin Range(addonIds)),
     protectedAddons |-> SelectSeq(addonIds, LAMBDA id : IsProtectedIn(currentAddons, id))]

\* removeAddons(currentAddons, addonIds) -> {addons, protectedAddons}: the requested
\* ids are partitioned into protected and removable; removable matches are dropped,
\* protected ones stay and are returned.
removeAddons(currentAddons, addonIds) ==
    [addons |-> SelectSeq(currentAddons,
                          LAMBDA d : ~(d.manifest.id \in Range(addonIds) /\ ~d.protected)),
     protectedAddons |-> SelectSeq(addonIds, LAMBDA id : IsProtectedIn(currentAddons, id))]

\* ------------------------------------------------------- library helpers
\* findSavedAddonByUrl(library, url): the id of the first library entry (insertion
\* order = id order) whose installUrl is exactly url, NoId when there is none.
findSavedAddonByUrl(lib, url) ==
    IF \E s \in DOMAIN lib : lib[s].installUrl = url
    THEN CHOOSE s \in DOMAIN lib :
            /\ lib[s].installUrl = url
            /\ \A r \in DOMAIN lib : lib[r].installUrl = url => s <= r
    ELSE NoId

\* ------------------------------------- account state synchronizer (ledger)
\* Array.prototype.find on addonId; 0 when absent.
IndexOfAddonId(installed, addonId) ==
    IF \E i \in 1..Len(installed) : installed[i].addonId = addonId
    THEN CHOOSE i \in 1..Len(installed) :
            /\ installed[i].addonId = addonId
            /\ \A j \in 1..(i - 1) : installed[j].addonId # addonId
    ELSE 0

\* Mutant of CarriedEntry: the carried entry is stamped again.
CarriedEntryRestamped(existing, addon, time) ==
    [existing EXCEPT !.installUrl = addon.transportUrl, !.installedAt = time]

\* { ...existing, installUrl: addon.transportUrl }
CarriedEntry(existing, addon, time) ==
    [existing EXCEPT !.installUrl = addon.transportUrl]

\* Mutant of NewEntry: the library is not consulted.
NewEntryUnlinked(addon, lib, time) ==
    [savedAddonId |-> NoId, addonId |-> addon.manifest.id, installUrl |-> addon.transportUrl,
     installedAt |-> time, installedVia |-> "manual", appliedTags |-> <<>>]

\* A new addon: auto-link to the saved addon with the same install URL.
NewEntry(addon, lib, time) ==
    LET m == findSavedAddonByUrl(lib, addon.transportUrl)
    IN  [savedAddonId |-> m,
         addonId |-> addon.manifest.id,
         installUrl |-> addon.transportUrl,
         installedAt |-> time,
         installedVia |-> IF m # NoId THEN "saved-addon" ELSE "manual",
         appliedTags |-> IF m # NoId THEN lib[m].tags ELSE <<>>]

\* Mutant of LedgerEntry: the previous ledger is not consulted.
LedgerEntryAlwaysNew(addon, previous, lib, time) == NewEntry(addon, lib, time)

\* existing ? { ...existing, installUrl } : a new entry
LedgerEntry(addon, previous, lib, time) ==
    LET e == IndexOfAddonId(previous, addon.manifest.id)
    IN  IF e # 0 THEN CarriedEntry(previous[e], addon, time) ELSE NewEntry(addon, lib, time)

\* Mutant of InstalledAddonsFor: entries of addons that are no longer live are kept.
InstalledAddonsKeepStale(currentAddons, previous, lib, time) ==
    [i \in 1..Len(currentAddons) |-> LedgerEntry(currentAddons[i], previous, lib, time)]
    \o SelectSeq(previous, LAMBDA e : e.addonId \notin Range(IdsOf(currentAddons)))

\* The installedAddons list syncAccountState builds: one entry per live addon.
InstalledAddonsFor(currentAddons, previous, lib, time) ==
    [i \in 1..Len(currentAddons) |-> LedgerEntry(currentAddons[i], previous, lib, time)]

\* ------------------------------------------------------------------ state
VARIABLES
    library,        \* addon store: library (id -> SavedAddon), in memory
    storedLibrary,  \* the library as last persisted by saveAddonLibrary
    accountStates,  \* addon store: accountStates (accountId -> AccountAddonState)
    storedStates,   \* the account states as last persisted
    remote,         \* the remote service: each account's addon collection
    locked,         \* auth store: encryptionKey is null
    now,            \* the clock read by new Date()
    op,             \* the store operation in progress and its captured arguments
    result,         \* the BulkResult being built
    step,           \* per account: the await the operation is suspended at
    local,          \* per account: currentAddons / updatedAddons / mergeResult
    budget,         \* operations that may still be started
    attempts,       \* log: accounts whose iteration has started, in order
    stepFailed,     \* log: accounts one of whose steps failed in this operation
    synced,         \* log: what the last successful sync of each account saw
    pure,           \* input and output of one call of a pure engine
    accounts,       \* account store: accounts (id -> addons, status, lastSync)
    call,           \* the api/addons or account-store call in progress and its locals
    sent,           \* log: remote reads and writes sent by the call in progress
    health,         \* checkAllHealth in progress and the addons it captured
    nextId,         \* the id the next crypto.randomUUID() returns
    imported        \* log: ids of the saved addons importAccounts has persisted

apiVars == <<accounts, call, sent>>
editVars == <<health, nextId, imported>>
storeVars == <<library, storedLibrary, accountStates, storedStates, remote, locked,
               now, op, result, step, local, budget, attempts, stepFailed, synced, apiVars, editVars>>
vars == <<library, storedLibrary, accountStates, storedStates, remote, locked,
          now, op, result, step, local, budget, attempts, stepFailed, synced, pure,
          accounts, call, sent, health, nextId, imported>>

Put(f, k, v) == [x \in (DOMAIN f) \cup {k} |-> IF x = k THEN v ELSE f[x]]

EmptyBulkResult == [success |-> 0, failed |-> 0, errors |-> <<>>, details |-> <<>>]
NoLocal == [currentAddons |-> <<>>, updatedAddons |-> <<>>, mergeResult |-> EmptyMergeResult]
NoSync == [live |-> <<>>, lib |-> [s \in {} |-> 0], previous |-> <<>>, repeat |-> FALSE]
IdleOp == [kind |-> "none", pc |-> "idle", savedAddons |-> <<>>, strategy |-> "replace-matching",
           addonIds |-> <<>>, accounts |-> <<>>, cursor |-> 1, error |-> "", tag |-> ""]
PureOff == [phase |-> "off"]
NoAddon == [transportUrl |-> "", manifest |-> [id |-> "", version |-> ""], protected |-> FALSE]
NoTraffic == [reads |-> 0, writes |-> 0, last |-> "none"]
NoCall == [kind |-> "none", pc |-> "idle", account |-> 0, addonId |-> "", error |-> "",
           currentAddons |-> <<>>, addonIndex |-> 0, transportUrl |-> "",
           newAddon |-> NoAddon, pending |-> <<>>, addons |-> <<>>, updatedAddon |-> NoAddon,
           input |-> <<>>, cursor |-> 1, results |-> <<>>, fetched |-> {}, attempt |-> 0]

\* The account store after the accounts were added: each holds the collection
\* fetched when it was added, with status 'active'.
ApiInit ==
    /\ accounts = [a \in DOMAIN remote |->
                       [addons |-> remote[a], status |-> "active", lastSync |-> 0]]
    /\ call = NoCall
    /\ sent = NoTraffic

\* No health check is running; the saved addons loaded have the ids 1 and 2.
NoHealthCheck == [pc |-> "idle", addons |-> <<>>]
EditInit ==
    /\ health = NoHealthCheck
    /\ nextId = 3
    /\ imported = {}

\* Collections an account can hold when the manager first sees it: a protected
\* addon followed by a user-installed one, or the user-installed one alone.
WithProtected == <<Descriptor("u2", "v1", TRUE), Descriptor("u1", "v1", FALSE)>>
WithoutProtected == <<Descriptor("u1", "v1", FALSE)>>
InitCollections == {WithProtected, WithoutProtected}

\* Libraries loaded by initialize(): empty; one saved addon; two saved addons for
\* different addons; two saved addons with the same install URL.
InitLibraries ==
    { [s \in {} |-> 0],
      [s \in {1} |-> SavedAddon(1, "u1", "v2", <<"t1">>, Never)],
      [s \in {1, 2} |-> IF s = 1 THEN SavedAddon(1, "u3", "v2", <<>>, Never)
                                  ELSE SavedAddon(2, "u2", "v2", <<"t1">>, Never)],
      [s \in {1, 2} |-> IF s = 1 THEN SavedAddon(1, "u1", "v2", <<>>, Never)
                                  ELSE SavedAddon(2, "u1", "v2", <<"t1">>, Never)] }

StoreInit ==
    /\ library \in InitLibraries
    /\ storedLibrary = library
    /\ accountStates = [a \in {} |-> 0]
    /\ storedStates = [a \in {} |-> 0]
    /\ locked = TRUE
    /\ now = 1
    /\ op = IdleOp
    /\ result = EmptyBulkResult
    /\ step = [a \in Accounts |-> "idle"]
    /\ local = [a \in Accounts |-> NoLocal]
    /\ attempts = <<>>
    /\ stepFailed = {}
    /\ synced = [a \in Accounts |-> NoSync]
    /\ EditInit

\* The orchestrator: every account is managed.
Init ==
    /\ StoreInit
    /\ remote = [a \in Accounts |-> IF a % 2 = 1 THEN WithProtected ELSE WithoutProtected]
    /\ budget = MaxOps
    /\ pure = PureOff
    /\ ApiInit

\* The ledger of one account over a longer run of operations.
InitLedger ==
    /\ StoreInit
    /\ remote \in [{1} -> InitCollections]
    /\ budget = MaxOps + 1
    /\ pure = PureOff
    /\ ApiInit

\* Inputs of the pure engines: collections with unique manifest ids, template lists
\* (the i-th template has saved-addon id i), requested addon ids.
PureCollections == {c \in InjSeqs(Descriptors, MaxLen) : UniqueIds(c)}
PureTemplateLists ==
    UNION {{[i \in 1..n |-> SavedAddon(i, f[i][1], f[i][2], <<>>, Never)] :
                f \in [1..n -> Urls \X Versions]} : n \in 1..MaxLen}
PureAddonIdLists == InjSeqs(ManifestIds, MaxLen)

PureInput(kind, currentAddons, savedAddons, strategy, addonIds) ==
    [phase |-> "input", kind |-> kind, currentAddons |-> currentAddons,
     savedAddons |-> savedAddons, strategy |-> strategy, addonIds |-> addonIds,
     addons |-> <<>>, result |-> EmptyMergeResult, protectedAddons |-> <<>>]

InitPure ==
    /\ StoreInit
    /\ library = [s \in {} |-> 0]
    /\ remote = [a \in Accounts |-> <<>>]
    /\ budget = 0
    /\ ApiInit
    /\ \/ \E c \in PureCollections, t \in PureTemplateLists, st \in Strategies :
             pure = PureInput("merge", c, t, st, <<>>)
       \/ \E c \in PureCollections, ids \in PureAddonIdLists :
             pure = PureInput("remove", c, <<>>, "replace-matching", ids)

\* ------------------------------------------------------------- scheduling
InFlightSteps == {"fetch", "write", "syncFetch"}
SettledSteps == {"ok", "failed"}

Idle == op.pc \in {"idle", "done", "thrown"}

\* The bulk loop is between two awaits: its continuation runs before any other
\* task (single-threaded, run to completion).
Runnable == op.pc \in {"loop", "syncAll"} /\ \A a \in Accounts : step[a] \notin InFlightSteps

Failed(res, a, err) ==
    [res EXCEPT !.failed = @ + 1, !.errors = Append(@, [accountId |-> a, error |-> err])]

Succeeded(res, a, mergeResult) ==
    [res EXCEPT !.success = @ + 1,
                !.details = Append(@, [accountId |-> a, result |-> mergeResult])]

\* ------------------------------------------------------------ auth store
\* Mutant of getEncryptionKeyThrows: a key is always handed out.
getEncryptionKeyNeverThrows(isLocked) == FALSE

\* getEncryptionKey(): if (!key) throw new Error('App is locked')
getEncryptionKeyThrows(isLocked) == isLocked

\* lock(): the encryption key is cleared.
Lock ==
    /\ ~Runnable
    /\ ~locked
    /\ locked' = TRUE
    /\ UNCHANGED <<library, storedLibrary, accountStates, storedStates, remote, now,
                   op, result, step, local, budget, attempts, stepFailed, synced, pure, apiVars, editVars>>

\* unlock(password) with the right password / initialize() with a session key.
Unlock ==
    /\ ~Runnable
    /\ locked
    /\ locked' = FALSE
    /\ UNCHANGED <<library, storedLibrary, accountStates, storedStates, remote, now,
                   op, result, step, local, budget, attempts, stepFailed, synced, pure, apiVars, editVars>>

\* ------------------------------------------------------ bulk orchestrator
StartOp(newOp, inFlight) ==
    /\ op' = newOp
    /\ result' = EmptyBulkResult
    /\ step' = [a \in Accounts |-> IF a \in inFlight THEN "syncFetch" ELSE "idle"]
    /\ local' = [a \in Accounts |-> NoLocal]
    /\ attempts' = <<>>
    /\ stepFailed' = {}
    /\ budget' = budget - 1
    /\ now' = now + 1

\* bulkApplySavedAddons(savedAddonIds, accountIds, strategy) up to the loop: the
\* saved addons are looked up once, here; none found throws.
BulkApplyStart(savedAddonIds, accountIds, strategy) ==
    /\ Idle
    /\ budget > 0
    /\ LET found == SelectSeq(savedAddonIds, LAMBDA id : id \in DOMAIN library)
           savedAddons == [i \in 1..Len(found) |-> library[found[i]]]
       IN  IF savedAddons = <<>>
           THEN StartOp([IdleOp EXCEPT !.kind = "apply", !.pc = "thrown",
                                       !.error = "No valid saved addons found"], {})
           ELSE StartOp([IdleOp EXCEPT !.kind = "apply", !.pc = "loop",
                                       !.savedAddons = savedAddons, !.strategy = strategy,
                                       !.accounts = accountIds], {})
    /\ UNCHANGED <<library, storedLibrary, accountStates, storedStates, remote, locked,
                   synced, pure, apiVars, editVars>>

\* bulkRemoveAddons(addonIds, accountIds) up to the loop.
BulkRemoveStart(addonIds, accountIds) ==
    /\ Idle
    /\ budget > 0
    /\ StartOp([IdleOp EXCEPT !.kind = "remove", !.pc = "loop", !.addonIds = addonIds,
                              !.accounts = accountIds], {})
    /\ UNCHANGED <<library, storedLibrary, accountStates, storedStates, remote, locked,
                   synced, pure, apiVars, editVars>>

IterationSettled(a) == step[a] \in SettledSteps

\* Mutant of PreviousSettled: the loop body is not awaited.
PreviousNotAwaited == TRUE

\* for ... of with awaits in the body: an iteration starts only after every await
\* of the iterations before it has settled.
PreviousSettled ==
    \A i \in 1..(op.cursor - 1) : IterationSettled(op.accounts[i])

\* Mutant of SettleFailed: the failure leaves the loop (break / rethrow).
SettleFailedAborts(o, a) == [o EXCEPT !.pc = "thrown", !.error = "aborted"]

\* catch (error) { result.failed++; result.errors.push(...) }: the loop goes on.
SettleFailed(o, a) == o

\* The head of one iteration: getEncryptionKey() throws when locked, otherwise the
\* credential is decrypted and getAddons(authKey) is sent.
StartAccount ==
    /\ op.pc = "loop"
    /\ op.cursor <= Len(op.accounts)
    /\ PreviousSettled
    /\ LET a == op.accounts[op.cursor]
       IN  /\ attempts' = Append(attempts, a)
           /\ IF getEncryptionKeyThrows(locked)
              THEN /\ step' = [step EXCEPT ![a] = "failed"]
                   /\ result' = Failed(result, a, "App is locked")
                   /\ stepFailed' = stepFailed \cup {a}
                   /\ op' = SettleFailed([op EXCEPT !.cursor = @ + 1], a)
              ELSE /\ step' = [step EXCEPT ![a] = "fetch"]
                   /\ op' = [op EXCEPT !.cursor = @ + 1]
                   /\ UNCHANGED <<result, stepFailed>>
    /\ UNCHANGED <<library, storedLibrary, accountStates, storedStates, remote, locked,
                   now, local, budget, synced, pure, apiVars, editVars>>

\* What the iteration computes from the fetched collection.
Computed(currentAddons) ==
    IF op.kind = "apply"
    THEN LET m == mergeAddons(currentAddons, op.savedAddons, op.strategy)
         IN  [currentAddons |-> currentAddons, updatedAddons |-> m.addons,
              mergeResult |-> m.result]
    ELSE LET r == removeAddons(currentAddons, op.addonIds)
         IN  [currentAddons |-> currentAddons, updatedAddons |-> r.addons,
              mergeResult |-> [EmptyMergeResult EXCEPT !.protected = r.protectedAddons]]

\* getAddons(authKey) answers: the engine runs and updateAddons is sent.
FetchOk(a) ==
    /\ op.pc = "loop"
    /\ step[a] = "fetch"
    /\ local' = [local EXCEPT ![a] = Computed(remote[a])]
    /\ step' = [step EXCEPT ![a] = "write"]
    /\ UNCHANGED <<library, storedLibrary, accountStates, storedStates, remote, locked, now,
                   op, result, budget, attempts, stepFailed, synced, pure, apiVars, editVars>>

\* getAddons(authKey) fails.
FetchFail(a) ==
    /\ op.pc = "loop"
    /\ step[a] = "fetch"
    /\ step' = [step EXCEPT ![a] = "failed"]
    /\ result' = Failed(result, a, "Network error")
    /\ stepFailed' = stepFailed \cup {a}
    /\ op' = SettleFailed(op, a)
    /\ UNCHANGED <<library, storedLibrary, accountStates, storedStates, remote, locked, now,
                   local, budget, attempts, synced, pure, apiVars, editVars>>

\* updateAddons answers: the account is counted as a success, its detail is pushed,
\* and syncAccountState starts (its getEncryptionKey() throws when locked).
WriteOk(a) ==
    /\ op.pc = "loop"
    /\ step[a] = "write"
    /\ remote' = [remote EXCEPT ![a] = local[a].updatedAddons]
    /\ LET counted == Succeeded(result, a, local[a].mergeResult)
       IN  IF getEncryptionKeyThrows(locked)
           THEN /\ result' = Failed(counted, a, "App is locked")
                /\ step' = [step EXCEPT ![a] = "failed"]
                /\ stepFailed' = stepFailed \cup {a}
                /\ op' = SettleFailed(op, a)
           ELSE /\ result' = counted
                /\ step' = [step EXCEPT ![a] = "syncFetch"]
                /\ UNCHANGED <<stepFailed, op>>
    /\ local' = [local EXCEPT ![a] = NoLocal]
    /\ UNCHANGED <<library, storedLibrary, accountStates, storedStates, locked, now,
                   budget, attempts, synced, pure, apiVars, editVars>>

\* updateAddons fails: the remote collection is not changed.
WriteFail(a) ==
    /\ op.pc = "loop"
    /\ step[a] = "write"
    /\ step' = [step EXCEPT ![a] = "failed"]
    /\ result' = Failed(result, a, "Network error")
    /\ stepFailed' = stepFailed \cup {a}
    /\ op' = SettleFailed(op, a)
    /\ local' = [local EXCEPT ![a] = NoLocal]
    /\ UNCHANGED <<library, storedLibrary, accountStates, storedStates, remote, locked, now,
                   budget, attempts, synced, pure, apiVars, editVars>>

\* -------------------------------------------------------------------- sync
PreviousInstalled(a) ==
    IF a \in DOMAIN accountStates THEN accountStates[a].installedAddons ELSE <<>>

\* syncAccountState(accountId, accountAuthKey) called on its own: getEncryptionKey()
\* throws when locked, otherwise getAddons(authKey) is sent.
SyncStart(a) ==
    /\ Idle
    /\ budget > 0
    /\ IF getEncryptionKeyThrows(locked)
       THEN StartOp([IdleOp EXCEPT !.kind = "sync", !.pc = "thrown", !.accounts = <<a>>,
                                   !.error = "App is locked"], {})
       ELSE StartOp([IdleOp EXCEPT !.kind = "sync", !.pc = "sync", !.accounts = <<a>>], {a})
    /\ UNCHANGED <<library, storedLibrary, accountStates, storedStates, remote, locked,
                   synced, pure, apiVars, editVars>>

\* The sync's getAddons answers: the ledger is rebuilt from the live collection, the
\* previous ledger and the library, set in the store and persisted.
SyncFetchOk(a) ==
    /\ op.pc \in {"loop", "sync", "syncAll"}
    /\ step[a] = "syncFetch"
    /\ LET currentAddons == remote[a]
           state == [accountId |-> a,
                     installedAddons |->
                         InstalledAddonsFor(currentAddons, PreviousInstalled(a), library, now),
                     lastSync |-> now]
       IN  /\ accountStates' = Put(accountStates, a, state)
           /\ storedStates' = accountStates'
           /\ synced' = [synced EXCEPT ![a] =
                  [live |-> currentAddons, lib |-> library, previous |-> PreviousInstalled(a),
                   repeat |-> /\ a \in DOMAIN accountStates
                              /\ synced[a].live = currentAddons
                              /\ synced[a].lib = library]]
    /\ step' = [step EXCEPT ![a] = "ok"]
    /\ op' = IF op.pc = "sync" THEN [op EXCEPT !.pc = "done"] ELSE op
    /\ UNCHANGED <<library, storedLibrary, remote, locked, now, result, local, budget,
                   attempts, stepFailed, pure, apiVars, editVars>>

\* The sync's getAddons fails: syncAccountState rethrows; a bulk loop catches it.
SyncFetchFail(a) ==
    /\ op.pc \in {"loop", "sync", "syncAll"}
    /\ step[a] = "syncFetch"
    /\ step' = [step EXCEPT ![a] = "failed"]
    /\ stepFailed' = stepFailed \cup {a}
    /\ CASE op.pc = "sync" ->
                /\ op' = [op EXCEPT !.pc = "thrown", !.error = "Network error"]
                /\ UNCHANGED result
         [] op.pc = "syncAll" ->
                /\ op' = SettleFailed(op, a)
                /\ UNCHANGED result
         [] OTHER ->
                /\ op' = SettleFailed(op, a)
                /\ result' = Failed(result, a, "Network error")
    /\ UNCHANGED <<library, storedLibrary, accountStates, storedStates, remote, locked, now,
                   local, budget, attempts, synced, pure, apiVars, editVars>>

\* library[savedAddon.id] = { ...savedAddon, lastUsed: new Date() } for every saved
\* addon captured at the start of the operation.
StampLastUsed(lib, savedAddons, time) ==
    [s \in (DOMAIN lib) \cup {savedAddons[i].id : i \in 1..Len(savedAddons)} |->
        IF \E i \in 1..Len(savedAddons) : savedAddons[i].id = s
        THEN [savedAddons[CHOOSE i \in 1..Len(savedAddons) : savedAddons[i].id = s]
                 EXCEPT !.lastUsed = time]
        ELSE lib[s]]

\* The loop is over: bulk apply stamps lastUsed and saves the library; the BulkResult
\* is returned.
Finish ==
    /\ op.pc = "loop"
    /\ op.cursor > Len(op.accounts)
    /\ \A i \in 1..Len(op.accounts) : IterationSettled(op.accounts[i])
    /\ op' = [op EXCEPT !.pc = "done"]
    /\ IF op.kind = "apply"
       THEN /\ library' = StampLastUsed(library, op.savedAddons, now)
            /\ storedLibrary' = library'
       ELSE UNCHANGED <<library, storedLibrary>>
    /\ UNCHANGED <<accountStates, storedStates, remote, locked, now, result, step,
                   local, budget, attempts, stepFailed, synced, pure, apiVars, editVars>>

\* -------------------------------------------------------------------- tags
\* normalizeTagName (lib/addon-validator): case and surrounding whitespace are
\* dropped.
normalizeTagName(tag) ==
    CASE tag = " T1 " -> "t1"
      [] tag = "T2" -> "t2"
      [] tag = "  " -> ""
      [] OTHER -> tag

TagInputs == {"t1", " T1 ", "T2"}

HasTag(savedAddon, normalizedTag) ==
    \E i \in 1..Len(savedAddon.tags) : normalizeTagName(savedAddon.tags[i]) = normalizedTag

\* Object.values(library): the saved addons in the order of their keys.
RECURSIVE Ascending(_)
Ascending(ids) ==
    IF ids = {} THEN <<>>
    ELSE LET least == CHOOSE x \in ids : \A y \in ids : x <= y
         IN  <<least>> \o Ascending(ids \ {least})

\* Mutant of getSavedAddonsByTag: the tag is not looked at.
getSavedAddonsByAnyTag(lib, tag) ==
    LET ids == Ascending(DOMAIN lib)
    IN  [i \in 1..Len(ids) |-> lib[ids[i]]]

\* getSavedAddonsByTag(tag)
getSavedAddonsByTag(lib, tag) ==
    LET ids == Ascending({s \in DOMAIN lib : HasTag(lib[s], normalizeTagName(tag))})
    IN  [i \in 1..Len(ids) |-> lib[ids[i]]]

\* ------------------------------------------------- single-account application
\* A single-account operation right after its getAddons(authKey) was sent.
StartSingle(newOp, a) ==
    /\ op' = newOp
    /\ result' = EmptyBulkResult
    /\ step' = [x \in Accounts |-> IF x = a THEN "fetch" ELSE "idle"]
    /\ local' = [x \in Accounts |-> NoLocal]
    /\ attempts' = <<>>
    /\ stepFailed' = {}
    /\ budget' = budget - 1
    /\ now' = now + 1

\* applySavedAddonToAccount / applyTagToAccount up to their first await: no saved
\* addon throws, then getEncryptionKey() throws when locked, then getAddons is sent.
ApplyToAccountStart(kind, savedAddons, notFound, tag, a, strategy) ==
    /\ Idle
    /\ budget > 0
    /\ IF savedAddons = <<>>
       THEN StartOp([IdleOp EXCEPT !.kind = kind, !.pc = "thrown", !.accounts = <<a>>,
                                   !.tag = tag, !.error = notFound], {})
       ELSE IF getEncryptionKeyThrows(locked)
            THEN StartOp([IdleOp EXCEPT !.kind = kind, !.pc = "thrown", !.accounts = <<a>>,
                                        !.tag = tag, !.savedAddons = savedAddons,
                                        !.strategy = strategy, !.error = "App is locked"], {})
            ELSE StartSingle([IdleOp EXCEPT !.kind = kind, !.pc = "single", !.accounts = <<a>>,
                                            !.tag = tag, !.savedAddons = savedAddons,
                                            !.strategy = strategy], a)
    /\ UNCHANGED <<library, storedLibrary, accountStates, storedStates, remote, locked,
                   synced, pure, apiVars, editVars>>

\* applySavedAddonToAccount(savedAddonId, accountId, accountAuthKey, strategy)
ApplySavedAddonToAccountStart(savedAddonId, a, strategy) ==
    ApplyToAccountStart("applyOne",
                        IF savedAddonId \in DOMAIN library THEN <<library[savedAddonId]>> ELSE <<>>,
                        "Saved addon not found", "", a, strategy)

\* applyTagToAccount(tag, accountId, accountAuthKey, strategy)
ApplyTagToAccountStart(tag, a, strategy) ==
    ApplyToAccountStart("applyTagOne", getSavedAddonsByTag(library, tag),
                        "No saved addons found with tag", tag, a, strategy)

\* getAddons answers: the saved addons are merged and updateAddons is sent.
SingleFetchOk(a) ==
    /\ op.pc = "single"
    /\ step[a] = "fetch"
    /\ LET m == mergeAddons(remote[a], op.savedAddons, op.strategy)
       IN  local' = [local EXCEPT ![a] = [currentAddons |-> remote[a],
                                          updatedAddons |-> m.addons,
                                          mergeResult |-> m.result]]
    /\ step' = [step EXCEPT ![a] = "write"]
    /\ UNCHANGED <<library, storedLibrary, accountStates, storedStates, remote, locked, now,
                   op, result, budget, attempts, stepFailed, synced, pure, apiVars, editVars>>

\* updateAddons answers: lastUsed is stamped and the library saved, then
\* syncAccountState starts (its getEncryptionKey() throws when locked).
SingleWriteOk(a) ==
    /\ op.pc = "single"
    /\ step[a] = "write"
    /\ remote' = [remote EXCEPT ![a] = local[a].updatedAddons]
    /\ library' = StampLastUsed(library, op.savedAddons, now)
    /\ storedLibrary' = library'
    /\ IF getEncryptionKeyThrows(locked)
       THEN /\ op' = [op EXCEPT !.pc = "thrown", !.error = "App is locked"]
            /\ step' = [step EXCEPT ![a] = "failed"]
            /\ stepFailed' = stepFailed \cup {a}
       ELSE /\ op' = [op EXCEPT !.pc = "sync"]
            /\ step' = [step EXCEPT ![a] = "syncFetch"]
            /\ UNCHANGED stepFailed
    /\ local' = [local EXCEPT ![a] = NoLocal]
    /\ UNCHANGED <<accountStates, storedStates, locked, now, result, budget, attempts,
                   synced, pure, apiVars, editVars>>

\* getAddons or updateAddons fails: the operation rethrows.
SingleFail(a) ==
    /\ op.pc = "single"
    /\ step[a] \in {"fetch", "write"}
    /\ op' = [op EXCEPT !.pc = "thrown", !.error = "Network error"]
    /\ step' = [step EXCEPT ![a] = "failed"]
    /\ stepFailed' = stepFailed \cup {a}
    /\ local' = [local EXCEPT ![a] = NoLocal]
    /\ UNCHANGED <<library, storedLibrary, accountStates, storedStates, remote, locked, now,
                   result, budget, attempts, synced, pure, apiVars, editVars>>

\* ------------------------------------------------------ tag-based bulk calls
\* An operation that threw before its first await.
ThrownAtOnce(kind, tag, err) ==
    /\ Idle
    /\ budget > 0
    /\ StartOp([IdleOp EXCEPT !.kind = kind, !.pc = "thrown", !.tag = tag, !.error = err], {})
    /\ UNCHANGED <<library, storedLibrary, accountStates, storedStates, remote, locked,
                   synced, pure, apiVars, editVars>>

\* bulkApplyTag(tag, accountIds, strategy) (applyTagToAccounts calls it)
BulkApplyTagStart(tag, accountIds, strategy) ==
    LET savedAddons == getSavedAddonsByTag(library, tag)
    IN  IF savedAddons = <<>>
        THEN ThrownAtOnce("apply", tag, "No saved addons found with tag")
        ELSE BulkApplyStart([i \in 1..Len(savedAddons) |-> savedAddons[i].id],
                            accountIds, strategy)

\* bulkRemoveByTag(tag, accountIds)
BulkRemoveByTagStart(tag, accountIds) ==
    LET savedAddons == getSavedAddonsByTag(library, tag)
    IN  IF savedAddons = <<>>
        THEN ThrownAtOnce("remove", tag, "No saved addons found with tag")
        ELSE BulkRemoveStart([i \in 1..Len(savedAddons) |-> savedAddons[i].manifest.id],
                             accountIds)

\* ---------------------------------------------------------- library edits
\* Mutant of AfterDelete: the ledger entries linked to the deleted saved addon are
\* unlinked.
AfterDeleteUnlinked(states, id) ==
    [a \in DOMAIN states |->
        [states[a] EXCEPT !.installedAddons =
            [i \in 1..Len(@) |-> IF @[i].savedAddonId = id
                                  THEN [@[i] EXCEPT !.savedAddonId = NoId]
                                  ELSE @[i]]]]

\* The account states after deleteSavedAddon: it does not touch them.
AfterDelete(states, id) == states

\* deleteSavedAddon(id): the entry is deleted from a copy of the library, which is
\* set and saved.
DeleteSavedAddon(id) ==
    /\ ~Runnable
    /\ budget > 0
    /\ budget' = budget - 1
    /\ library' = [s \in (DOMAIN library) \ {id} |-> library[s]]
    /\ storedLibrary' = library'
    /\ accountStates' = AfterDelete(accountStates, id)
    /\ UNCHANGED <<storedStates, remote, locked, now, op, result, step,
                   local, attempts, stepFailed, synced, pure, apiVars, editVars>>

\* -------------------------------------------------- syncAllAccountStates
\* syncAllAccountStates(accounts) up to its loop.
SyncAllAccountStatesStart(accountIds) ==
    /\ Idle
    /\ budget > 0
    /\ StartOp([IdleOp EXCEPT !.kind = "syncAll", !.pc = "syncAll", !.accounts = accountIds], {})
    /\ UNCHANGED <<library, storedLibrary, accountStates, storedStates, remote, locked,
                   synced, pure, apiVars, editVars>>

\* One iteration's call of syncAccountState: getEncryptionKey() throws when locked
\* (caught and logged), otherwise getAddons is sent.
SyncAllAccountStatesNext ==
    /\ op.pc = "syncAll"
    /\ op.cursor <= Len(op.accounts)
    /\ PreviousSettled
    /\ LET a == op.accounts[op.cursor]
       IN  /\ attempts' = Append(attempts, a)
           /\ IF getEncryptionKeyThrows(locked)
              THEN /\ step' = [step EXCEPT ![a] = "failed"]
                   /\ stepFailed' = stepFailed \cup {a}
                   /\ op' = SettleFailed([op EXCEPT !.cursor = @ + 1], a)
              ELSE /\ step' = [step EXCEPT ![a] = "syncFetch"]
                   /\ op' = [op EXCEPT !.cursor = @ + 1]
                   /\ UNCHANGED stepFailed
    /\ UNCHANGED <<library, storedLibrary, accountStates, storedStates, remote, locked,
                   now, result, local, budget, synced, pure, apiVars, editVars>>

\* The loop is over: syncAllAccountStates returns.
SyncAllAccountStatesFinish ==
    /\ op.pc = "syncAll"
    /\ op.cursor > Len(op.accounts)
    /\ \A i \in 1..Len(op.accounts) : IterationSettled(op.accounts[i])
    /\ op' = [op EXCEPT !.pc = "done"]
    /\ UNCHANGED <<library, storedLibrary, accountStates, storedStates, remote, locked, now,
                   result, step, local, budget, attempts, stepFailed, synced, pure, apiVars, editVars>>

\* ---------------------------------------------------------- specification
\* Account lists given to a bulk operation: the managed accounts, in ascending and
\* in descending order.
Managed == DOMAIN remote
AccountLists ==
    LET n == Cardinality(Managed)
    IN  {[i \in 1..n |-> i], [i \in 1..n |-> n + 1 - i]}
SavedIdLists == {<<1>>, <<2, 1>>}
AddonIdLists == {<<"X">>, <<"X", "Y">>}

Next ==
    \/ Lock
    \/ Unlock
    \/ \E ids \in SavedIdLists, accts \in AccountLists, st \in Strategies :
          BulkApplyStart(ids, accts, st)
    \/ \E ids \in AddonIdLists, accts \in AccountLists : BulkRemoveStart(ids, accts)
    \/ \E a \in Managed : SyncStart(a)
    \/ StartAccount
    \/ \E a \in Accounts : FetchOk(a)
    \/ \E a \in Accounts : FetchFail(a)
    \/ \E a \in Accounts : WriteOk(a)
    \/ \E a \in Accounts : WriteFail(a)
    \/ \E a \in Accounts : SyncFetchOk(a)
    \/ \E a \in Accounts : SyncFetchFail(a)
    \/ Finish

Spec == Init /\ [][Next]_vars

SpecLedger == InitLedger /\ [][Next]_vars

\* The whole addon store on one account: the bulk operations and the sync, the
\* single-account and tag-based operations, and the library edit.
NextStore ==
    \/ Next
    \/ \E id \in SavedIds, a \in Managed, st \in Strategies :
          ApplySavedAddonToAccountStart(id, a, st)
    \/ \E tag \in TagInputs, a \in Managed, st \in Strategies :
          ApplyTagToAccountStart(tag, a, st)
    \/ \E a \in Accounts : SingleFetchOk(a)
    \/ \E a \in Accounts : SingleWriteOk(a)
    \/ \E a \in Accounts : SingleFail(a)
    \/ \E tag \in TagInputs, accts \in AccountLists, st \in Strategies :
          BulkApplyTagStart(tag, accts, st)
    \/ \E tag \in TagInputs, accts \in AccountLists : BulkRemoveByTagStart(tag, accts)
    \/ \E id \in SavedIds : DeleteSavedAddon(id)

SpecStore == InitLedger /\ [][NextStore]_vars

\* One call of mergeAddons on the drawn input.
CallMerge ==
    /\ pure.phase = "input"
    /\ pure.kind = "merge"
    /\ LET m == mergeAddons(pure.currentAddons, pure.savedAddons, pure.strategy)
       IN  pure' = [pure EXCEPT !.phase = "merged", !.addons = m.addons, !.result = m.result]
    /\ UNCHANGED storeVars

\* One call of removeAddons on the drawn input.
CallRemove ==
    /\ pure.phase = "input"
    /\ pure.kind = "remove"
    /\ LET r == removeAddons(pure.currentAddons, pure.addonIds)
       IN  pure' = [pure EXCEPT !.phase = "removed", !.addons = r.addons,
                                !.protectedAddons = r.protectedAddons]
    /\ UNCHANGED storeVars

NextPure == CallMerge \/ CallRemove

SpecPure == InitPure /\ [][NextPure]_vars

\* --------------------------------------------------------------- api/addons
ApiIds == ManifestIds \cup {"Z"}

\* Collections of the accounts the api calls work on: a protected addon followed by
\* two user-installed ones, or the two user-installed ones alone.
ThreeAddons ==
    <<Descriptor("u2", "v1", TRUE), Descriptor("u1", "v1", FALSE), Descriptor("u4", "v1", FALSE)>>
TwoAddons == <<Descriptor("u1", "v1", FALSE), Descriptor("u4", "v1", FALSE)>>

InitApi ==
    /\ StoreInit
    /\ library = [s \in {} |-> 0]
    /\ remote = [a \in Accounts |-> IF a % 2 = 1 THEN ThreeAddons ELSE TwoAddons]
    /\ budget = MaxOps
    /\ pure = PureOff
    /\ ApiInit

frameVars == <<library, storedLibrary, accountStates, storedStates, locked, now, op, result,
               step, local, attempts, stepFailed, synced, pure, editVars>>

ApiIdle == call.pc \in {"idle", "done", "thrown"}

Read(t) == [t EXCEPT !.reads = @ + 1, !.last = "read"]
Write(t) == [t EXCEPT !.writes = @ + 1, !.last = "write"]

\* addons.filter((addon) => addon.manifest.id !== addonId)
FilterOut(addons, addonId) == SelectSeq(addons, LAMBDA d : d.manifest.id # addonId)

\* addons.find((addon) => addon.manifest.id === addonId), NoAddon for undefined
FindById(addons, addonId) ==
    IF IndexOfId(addons, addonId) = 0 THEN NoAddon ELSE addons[IndexOfId(addons, addonId)]

\* copy.splice(index, 0, addon) with a 0-based index k
SpliceIn(addons, k, addon) ==
    LET at == IF k > Len(addons) THEN Len(addons) ELSE k
    IN  SubSeq(addons, 1, at) \o <<addon>> \o SubSeq(addons, at + 1, Len(addons))

\* Mutant of UpdatedAddons: the new addon is appended whatever the collection holds.
UpdatedAddonsAppended(currentAddons, newAddon) == Append(currentAddons, newAddon)

\* installAddon: replace the addon with the new manifest's id in place, or append.
UpdatedAddons(currentAddons, newAddon) ==
    LET existingIndex == IndexOfId(currentAddons, newAddon.manifest.id)
    IN  IF existingIndex > 0
        THEN [currentAddons EXCEPT ![existingIndex] = newAddon]
        ELSE Append(currentAddons, newAddon)

\* Mutant of Skippable: only an absent target is skipped.
SkippableOnlyAbsent(existingAddon) == existingAddon = NoAddon

\* if (!existingAddon) return ...; if (existingAddon.flags?.protected) return ...
Skippable(existingAddon) == existingAddon = NoAddon \/ existingAddon.protected

\* reinstallAddon(authKey, addonId): getAddons(authKey) is sent.
ReinstallStart(a, addonId) ==
    /\ ApiIdle
    /\ budget > 0
    /\ budget' = budget - 1
    /\ call' = [NoCall EXCEPT !.kind = "reinstall", !.pc = "read", !.account = a,
                              !.addonId = addonId]
    /\ sent' = Read(NoTraffic)
    /\ UNCHANGED <<frameVars, remote, accounts>>

\* The first read answers: an absent or protected target returns at once; otherwise
\* removeAddon starts with its own getAddons.
ReinstallLocated ==
    /\ call.kind = "reinstall"
    /\ call.pc = "read"
    /\ LET currentAddons == remote[call.account]
           existingAddon == FindById(currentAddons, call.addonId)
       IN  IF Skippable(existingAddon)
           THEN /\ call' = [call EXCEPT !.pc = "done", !.currentAddons = currentAddons,
                                        !.addons = currentAddons, !.updatedAddon = NoAddon]
                /\ UNCHANGED sent
           ELSE /\ call' = [call EXCEPT !.pc = "rmRead", !.currentAddons = currentAddons,
                                        !.transportUrl = existingAddon.transportUrl,
                                        !.addonIndex = IndexOfId(currentAddons, call.addonId)]
                /\ sent' = Read(sent)
    /\ UNCHANGED <<frameVars, remote, accounts, budget>>

\* removeAddonFromAccount(accountId, addonId) of the account store: the credential is
\* decrypted and removeAddon sends getAddons.
RemoveAddonFromAccountStart(a, addonId) ==
    /\ ApiIdle
    /\ budget > 0
    /\ budget' = budget - 1
    /\ call' = [NoCall EXCEPT !.kind = "removeFromAccount", !.pc = "rmRead", !.account = a,
                              !.addonId = addonId, !.currentAddons = remote[a]]
    /\ sent' = Read(NoTraffic)
    /\ UNCHANGED <<frameVars, remote, accounts>>

\* removeAddon's getAddons answers: the filtered collection is sent with updateAddons.
RemoveRead ==
    /\ call.pc = "rmRead"
    /\ call' = [call EXCEPT !.pc = "rmWrite",
                            !.pending = FilterOut(remote[call.account], call.addonId)]
    /\ sent' = Write(sent)
    /\ UNCHANGED <<frameVars, remote, accounts, budget>>

\* removeAddon's updateAddons answers. removeAddonFromAccount stores the returned
\* collection in the account; reinstallAddon goes on with installAddon, whose first
\* step is the manifest fetch.
RemoveWritten ==
    /\ call.pc = "rmWrite"
    /\ remote' = [remote EXCEPT ![call.account] = call.pending]
    /\ IF call.kind = "removeFromAccount"
       THEN /\ call' = [call EXCEPT !.pc = "done", !.addons = call.pending]
            /\ accounts' = [accounts EXCEPT ![call.account].addons = call.pending,
                                            ![call.account].lastSync = now]
       ELSE /\ call' = [call EXCEPT !.pc = "manifest"]
            /\ UNCHANGED accounts
    /\ UNCHANGED <<frameVars, sent, budget>>

\* installAddonToAccount(accountId, addonUrl) of the account store: the credential is
\* decrypted and installAddon sends its manifest fetch.
InstallAddonToAccountStart(a, addonUrl) ==
    /\ ApiIdle
    /\ budget > 0
    /\ budget' = budget - 1
    /\ call' = [NoCall EXCEPT !.kind = "installToAccount", !.pc = "manifest", !.account = a,
                              !.transportUrl = addonUrl, !.currentAddons = remote[a]]
    /\ sent' = NoTraffic
    /\ UNCHANGED <<frameVars, remote, accounts>>

\* installAddon's fetchAddonManifest(transportUrl) returns { transportUrl, manifest }
\* (no flags); getAddons is sent.
ManifestFetched(id, version) ==
    /\ call.pc = "manifest"
    /\ call' = [call EXCEPT !.pc = "inRead",
                            !.newAddon = [transportUrl |-> call.transportUrl,
                                          manifest |-> Manifest(id, version),
                                          protected |-> FALSE]]
    /\ sent' = Read(sent)
    /\ UNCHANGED <<frameVars, remote, accounts, budget>>

\* installAddon's getAddons answers: the updated collection is sent.
InstallRead ==
    /\ call.pc = "inRead"
    /\ call' = [call EXCEPT !.pc = "inWrite",
                            !.pending = UpdatedAddons(remote[call.account], call.newAddon)]
    /\ sent' = Write(sent)
    /\ UNCHANGED <<frameVars, remote, accounts, budget>>

\* Mutant of NeedsReorder: the reinstalled addon is left where installAddon put it.
NeverReorder(addonsAfterInstall, addonId, addonIndex) == FALSE

\* reinstalledAddon && addonIndex >= 0 && addonIndex < addonsAfterInstall.length - 1
\* (addonIndex is 1-based here, 0 for not found).
NeedsReorder(addonsAfterInstall, addonId, addonIndex) ==
    /\ FindById(addonsAfterInstall, addonId) # NoAddon
    /\ addonIndex >= 1
    /\ addonIndex < Len(addonsAfterInstall)

\* installAddon's updateAddons answers. installAddonToAccount stores the returned
\* collection in the account; reinstallAddon either sends the reordered collection
\* or returns addonsAfterInstall.
InstallWritten ==
    /\ call.pc = "inWrite"
    /\ remote' = [remote EXCEPT ![call.account] = call.pending]
    /\ LET addonsAfterInstall == call.pending
           reinstalledAddon == FindById(addonsAfterInstall, call.addonId)
       IN  IF call.kind = "installToAccount"
           THEN /\ call' = [call EXCEPT !.pc = "done", !.addons = addonsAfterInstall]
                /\ accounts' = [accounts EXCEPT ![call.account].addons = addonsAfterInstall,
                                                ![call.account].lastSync = now]
                /\ UNCHANGED sent
           ELSE /\ UNCHANGED accounts
                /\ IF NeedsReorder(addonsAfterInstall, call.addonId, call.addonIndex)
                   THEN /\ call' = [call EXCEPT !.pc = "roWrite",
                                      !.pending = SpliceIn(FilterOut(addonsAfterInstall, call.addonId),
                                                           call.addonIndex - 1, reinstalledAddon)]
                        /\ sent' = Write(sent)
                   ELSE /\ call' = [call EXCEPT !.pc = "done", !.addons = addonsAfterInstall,
                                                !.updatedAddon = reinstalledAddon]
                        /\ UNCHANGED sent
    /\ UNCHANGED <<frameVars, budget>>

\* The reorder's updateAddons answers: the collection is read again.
ReorderWritten ==
    /\ call.pc = "roWrite"
    /\ remote' = [remote EXCEPT ![call.account] = call.pending]
    /\ call' = [call EXCEPT !.pc = "finalRead"]
    /\ sent' = Read(sent)
    /\ UNCHANGED <<frameVars, accounts, budget>>

\* The final getAddons answers: reinstallAddon returns what the service has.
FinalRead ==
    /\ call.pc = "finalRead"
    /\ call' = [call EXCEPT !.pc = "done", !.addons = remote[call.account],
                            !.updatedAddon = FindById(remote[call.account], call.addonId)]
    /\ UNCHANGED <<frameVars, remote, accounts, sent, budget>>

AwaitingRemote == {"read", "rmRead", "rmWrite", "manifest", "inRead", "inWrite", "roWrite",
                   "finalRead"}

\* Mutant of AfterFailure: the collection read at the start is put back.
AfterFailureRestored(collections, c) ==
    [collections EXCEPT ![c.account] = IF c.kind = "reinstall" /\ c.pc \notin {"read", "rmRead"}
                                       THEN c.currentAddons ELSE @]

\* The remote collections after a failed step: nothing is written back.
AfterFailure(collections, c) == collections

\* The awaited request fails (network, unauthorized, manifest not found): neither
\* removeAddon, installAddon nor reinstallAddon catches, the call rejects.
CallFail ==
    /\ call.kind \in {"reinstall", "removeFromAccount", "installToAccount"}
    /\ call.pc \in AwaitingRemote
    /\ call' = [call EXCEPT !.pc = "thrown", !.error = call.pc]
    /\ remote' = AfterFailure(remote, call)
    /\ UNCHANGED <<frameVars, accounts, sent, budget>>

\* ------------------------------------------------------ checkAddonUpdates
\* An addon as checkAddonUpdates sees it: flags.protected and flags.official.
Flagged(url, version, prot, official) ==
    [transportUrl |-> url, manifest |-> Manifest(IdServedAt(url), version),
     protected |-> prot, official |-> official]

UpdateCandidates ==
    {Flagged("u1", "v1", FALSE, FALSE), Flagged("u2", "v1", TRUE, FALSE),
     Flagged("u4", "v1", FALSE, TRUE), Flagged("u3", "v2", FALSE, FALSE)}
UpdateInputs == InjSeqs(UpdateCandidates, MaxLen)

\* Mutant of Checkable: nothing is filtered out.
CheckableAll(addon) == TRUE

\* !addon.flags?.protected && !addon.flags?.official
Checkable(addon) == ~addon.protected /\ ~addon.official

UpdateInfo(addon, latestVersion, isOnline) ==
    [addonId |-> addon.manifest.id, transportUrl |-> addon.transportUrl,
     installedVersion |-> addon.manifest.version, latestVersion |-> latestVersion,
     hasUpdate |-> latestVersion # addon.manifest.version, isOnline |-> isOnline]

\* checkAddonUpdates(addons): the checkable addons are filtered out once; the first
\* one's manifest fetch and health probe are sent.
CheckAddonUpdatesStart(addons) ==
    /\ ApiIdle
    /\ budget > 0
    /\ budget' = budget - 1
    /\ LET checkableAddons == SelectSeq(addons, Checkable)
       IN  call' = [NoCall EXCEPT !.kind = "checkAddonUpdates",
                                  !.pc = IF checkableAddons = <<>> THEN "done" ELSE "check",
                                  !.input = addons, !.pending = checkableAddons]
    /\ sent' = NoTraffic
    /\ UNCHANGED <<frameVars, remote, accounts>>

\* The loop after one addon: the next addon's requests are sent, or the results are
\* returned.
CheckAdvanced(c) ==
    [c EXCEPT !.cursor = @ + 1, !.pc = IF c.cursor + 1 > Len(c.pending) THEN "done" ELSE "check"]

\* Promise.all([fetchAddonManifest, checkAddonHealth]) resolves: one UpdateInfo is
\* pushed.
CheckAnswered(latestVersion, isOnline) ==
    /\ call.kind = "checkAddonUpdates"
    /\ call.pc = "check"
    /\ LET addon == call.pending[call.cursor]
       IN  call' = CheckAdvanced([call EXCEPT
                       !.results = Append(@, UpdateInfo(addon, latestVersion, isOnline)),
                       !.fetched = @ \cup {addon}])
    /\ UNCHANGED <<frameVars, remote, accounts, sent, budget>>

\* The manifest fetch rejects: the catch logs it and the loop goes on.
CheckFailed ==
    /\ call.kind = "checkAddonUpdates"
    /\ call.pc = "check"
    /\ call' = CheckAdvanced(call)
    /\ UNCHANGED <<frameVars, remote, accounts, sent, budget>>

\* ----------------------------------------------------- fetchAddonManifest
DefaultRetries == 2

\* Mutant of LoopGoesOn: one more round.
LoopGoesOnLonger(i, retries) == i <= retries + 1

\* for (let i = 0; i <= retries; i++)
LoopGoesOn(i, retries) == i <= retries

\* fetchAddonManifest(transportUrl) with the default retries: the first axios.get
\* is sent (i = 0).
FetchAddonManifestStart(url) ==
    /\ ApiIdle
    /\ budget > 0
    /\ budget' = budget - 1
    /\ call' = [NoCall EXCEPT !.kind = "fetchAddonManifest", !.pc = "attempt",
                              !.transportUrl = url, !.cursor = 0, !.attempt = 1]
    /\ sent' = NoTraffic
    /\ UNCHANGED <<frameVars, remote, accounts>>

\* The response parses and has id, name and version: { transportUrl, manifest }.
AttemptOk(version) ==
    /\ call.kind = "fetchAddonManifest"
    /\ call.pc = "attempt"
    /\ call' = [call EXCEPT !.pc = "done",
                            !.updatedAddon = Descriptor(call.transportUrl, version, FALSE)]
    /\ UNCHANGED <<frameVars, remote, accounts, sent, budget>>

AttemptErrors == {"network", "parse", "missing fields", "404"}

\* Mutant of IsNotFound: a 404 is treated as any other error.
IsNotFoundNever(err) == FALSE

\* axios.isAxiosError(error) && error.response?.status === 404
IsNotFound(err) == err = "404"

\* The attempt throws (call.results logs the errors): a 404 is rethrown at once; otherwise i++ and, while the loop
\* goes on, the next axios.get is sent after the delay; after the loop lastError is
\* thrown.
AttemptFail(err) ==
    /\ call.kind = "fetchAddonManifest"
    /\ call.pc = "attempt"
    /\ IF IsNotFound(err)
       THEN call' = [call EXCEPT !.pc = "thrown", !.results = Append(@, err),
                                 !.error = "Addon manifest not found at this URL"]
       ELSE IF LoopGoesOn(call.cursor + 1, DefaultRetries)
            THEN call' = [call EXCEPT !.cursor = @ + 1, !.attempt = @ + 1, !.error = err,
                                      !.results = Append(@, err)]
            ELSE call' = [call EXCEPT !.cursor = @ + 1, !.pc = "thrown", !.error = err,
                                      !.results = Append(@, err)]
    /\ UNCHANGED <<frameVars, remote, accounts, sent, budget>>

NextApi ==
    \/ \E a \in Accounts, id \in ApiIds : ReinstallStart(a, id)
    \/ ReinstallLocated
    \/ \E a \in Accounts, id \in ApiIds : RemoveAddonFromAccountStart(a, id)
    \/ \E a \in Accounts, url \in Urls : InstallAddonToAccountStart(a, url)
    \/ RemoveRead
    \/ RemoveWritten
    \/ \E id \in ApiIds, v \in Versions : ManifestFetched(id, v)
    \/ InstallRead
    \/ InstallWritten
    \/ ReorderWritten
    \/ FinalRead
    \/ CallFail
    \/ \E addons \in UpdateInputs : CheckAddonUpdatesStart(addons)
    \/ \E v \in Versions, isOnline \in BOOLEAN : CheckAnswered(v, isOnline)
    \/ CheckFailed
    \/ \E url \in Urls : FetchAddonManifestStart(url)
    \/ \E v \in Versions : AttemptOk(v)
    \/ \E err \in AttemptErrors : AttemptFail(err)

SpecApi == InitApi /\ [][NextApi]_vars

\* --------------------------------------------------- account store: sync all
\* Mutant of MarkedError: the failed account's addons are cleared.
MarkedErrorCleared(account) == [account EXCEPT !.status = "error", !.addons = <<>>]

\* { ...acc, status: 'error' }
MarkedError(account) == [account EXCEPT !.status = "error"]

\* syncAllAccounts(): the accounts are captured; the first one's credential is
\* decrypted and getAddons is sent.
SyncAllAccountsStart ==
    /\ ApiIdle
    /\ budget > 0
    /\ budget' = budget - 1
    /\ call' = [NoCall EXCEPT !.kind = "syncAllAccounts", !.pc = "saRead",
                              !.input = [a \in DOMAIN accounts |-> accounts[a].addons]]
    /\ sent' = Read(NoTraffic)
    /\ UNCHANGED <<frameVars, remote, accounts>>

\* The loop after one account: the next account's getAddons is sent, or the
\* accounts are persisted and syncAllAccounts returns.
SyncAllAdvanced(c, outcome) ==
    [c EXCEPT !.cursor = @ + 1, !.results = Append(@, outcome),
              !.pc = IF c.cursor + 1 > Cardinality(DOMAIN accounts) THEN "done" ELSE "saRead"]

\* getAddons answers: the account gets the fetched addons, a new lastSync and the
\* status 'active'.
SyncAllAccountsFetched ==
    /\ call.kind = "syncAllAccounts"
    /\ call.pc = "saRead"
    /\ LET a == call.cursor
       IN  /\ accounts' = [accounts EXCEPT ![a] = [addons |-> remote[a], status |-> "active",
                                                   lastSync |-> now]]
           /\ call' = SyncAllAdvanced(call, [account |-> a, ok |-> TRUE, addons |-> remote[a]])
    /\ sent' = IF call'.pc = "saRead" THEN Read(sent) ELSE sent
    /\ UNCHANGED <<frameVars, remote, budget>>

\* decrypt or getAddons throws: the account is marked as error and the loop goes on.
SyncAllAccountsFailed ==
    /\ call.kind = "syncAllAccounts"
    /\ call.pc = "saRead"
    /\ LET a == call.cursor
       IN  /\ accounts' = [accounts EXCEPT ![a] = MarkedError(@)]
           /\ call' = SyncAllAdvanced(call, [account |-> a, ok |-> FALSE, addons |-> <<>>])
    /\ sent' = IF call'.pc = "saRead" THEN Read(sent) ELSE sent
    /\ UNCHANGED <<frameVars, remote, budget>>

\* The remote service: a collection is changed from another client.
RemoteChanged(a, addons) ==
    /\ budget > 0
    /\ budget' = budget - 1
    /\ remote[a] # addons
    /\ remote' = [remote EXCEPT ![a] = addons]
    /\ UNCHANGED <<frameVars, accounts, call, sent>>

InitSyncAll ==
    /\ StoreInit
    /\ library = [s \in {} |-> 0]
    /\ remote = [a \in Accounts |-> IF a % 2 = 1 THEN ThreeAddons ELSE TwoAddons]
    /\ budget = MaxOps + 1
    /\ pure = PureOff
    /\ ApiInit

NextSyncAll ==
    \/ Lock
    \/ Unlock
    \/ SyncAllAccountsStart
    \/ SyncAllAccountsFetched
    \/ SyncAllAccountsFailed
    \/ \E accts \in AccountLists : SyncAllAccountStatesStart(accts)
    \/ SyncAllAccountStatesNext
    \/ \E a \in Accounts : SyncFetchOk(a)
    \/ \E a \in Accounts : SyncFetchFail(a)
    \/ SyncAllAccountStatesFinish
    \/ \E a \in Accounts, addons \in {ThreeAddons, TwoAddons} : RemoteChanged(a, addons)

SpecSyncAll == InitSyncAll /\ [][NextSyncAll]_vars

\* ------------------------------------------------------------- properties
BulkKinds == {"apply", "remove"}
BulkDone == op.kind \in BulkKinds /\ op.pc = "done"
ErrorAccounts == {result.errors[i].accountId : i \in 1..Len(result.errors)}

\* C1 (as claimed): when a bulk apply or bulk remove has returned, success + failed
\* of its BulkResult equals the number of accounts it was given.
C1_SuccessPlusFailedIsLen ==
    BulkDone => result.success + result.failed = Len(op.accounts)

\* C2: a bulk operation that has entered its loop never throws; the accounts whose
\* iteration has started are always a prefix of the input list, and all of it once the
\* operation has returned; every account one of whose steps failed has an
\* {accountId, error} entry.
C2_EveryAccountAttempted ==
    op.kind \in BulkKinds =>
        /\ op.pc = "thrown" => (op.error = "No valid saved addons found" /\ attempts = <<>>)
        /\ Len(attempts) <= Len(op.accounts)
        /\ attempts = SubSeq(op.accounts, 1, Len(attempts))
        /\ op.pc = "done" => attempts = op.accounts
        /\ stepFailed \subseteq ErrorAccounts

\* C2 witness: the bulk operation returned, the first account of the list failed and
\* a later one went through.
C2_Witness ==
    /\ BulkDone
    /\ Len(op.accounts) >= 2
    /\ op.accounts[1] \in stepFailed
    /\ step[op.accounts[2]] = "ok"

InFlight == {a \in Accounts : step[a] \in InFlightSteps}

\* C5: during a bulk operation at most one account has a remote call in flight, and
\* the iteration of an account has not started while the account before it in the list
\* is not settled.
C5_OneAccountAtATime ==
    op.kind \in BulkKinds =>
        /\ Cardinality(InFlight) <= 1
        /\ \A k \in 2..Len(op.accounts) :
              step[op.accounts[k]] # "idle" => step[op.accounts[k - 1]] \in SettledSteps

\* C5 witness: the second account has a remote call in flight after the first went
\* through all its steps.
C5_Witness ==
    /\ op.kind \in BulkKinds
    /\ op.pc = "loop"
    /\ Len(op.accounts) >= 2
    /\ step[op.accounts[1]] = "ok"
    /\ step[op.accounts[2]] \in InFlightSteps

\* C6 (as claimed): when a bulk apply has returned and no account's write-back
\* succeeded, every captured template still has the lastUsed it had.
C6_UnappliedKeepsLastUsed ==
    (op.kind = "apply" /\ op.pc = "done" /\ result.success = 0) =>
        \A i \in 1..Len(op.savedAddons) :
            library[op.savedAddons[i].id].lastUsed = op.savedAddons[i].lastUsed

Installed(a) == accountStates[a].installedAddons
MatchingSaved(lib, url) == {s \in DOMAIN lib : lib[s].installUrl = url}
HadEntry(a, i) == IndexOfAddonId(synced[a].previous, synced[a].live[i].manifest.id) # 0

\* C7 (as claimed): after a successful sync, every live addon whose transportUrl is
\* the installUrl of a library entry has the id of such an entry as savedAddonId,
\* whether or not the previous ledger had an entry for it.
C7_EveryMatchingLinked ==
    \A a \in DOMAIN accountStates :
        \A i \in 1..Len(synced[a].live) :
            MatchingSaved(synced[a].lib, synced[a].live[i].transportUrl) # {} =>
                Installed(a)[i].savedAddonId
                    \in MatchingSaved(synced[a].lib, synced[a].live[i].transportUrl)

\* C7 (amended): after a successful sync, every live addon that had no entry in the
\* previous ledger and whose transportUrl is the installUrl of a library entry has as
\* savedAddonId the id of a library entry with that installUrl.
C7_NewMatchingLinked ==
    \A a \in DOMAIN accountStates :
        \A i \in 1..Len(synced[a].live) :
            LET matching == MatchingSaved(synced[a].lib, synced[a].live[i].transportUrl)
            IN  (~HadEntry(a, i) /\ matching # {}) =>
                    Installed(a)[i].savedAddonId \in matching

\* C7 witness: a sync that had a previous ledger met a new live addon whose URL is
\* a library entry's, and linked it.
C7_Witness ==
    \E a \in DOMAIN accountStates :
        \E i \in 1..Len(synced[a].live) :
            /\ synced[a].previous # <<>>
            /\ ~HadEntry(a, i)
            /\ MatchingSaved(synced[a].lib, synced[a].live[i].transportUrl) # {}
            /\ Installed(a)[i].savedAddonId # NoId

\* C8: after a successful sync the ledger has exactly one entry per descriptor of the
\* live collection the sync fetched, in live order, with addonId = manifest.id and
\* installUrl = transportUrl (so no entry for an addon that is not live).
C8_LedgerMirrorsLive ==
    \A a \in DOMAIN accountStates :
        /\ Len(Installed(a)) = Len(synced[a].live)
        /\ \A i \in 1..Len(synced[a].live) :
              /\ Installed(a)[i].addonId = synced[a].live[i].manifest.id
              /\ Installed(a)[i].installUrl = synced[a].live[i].transportUrl

\* C8 witness: a sync dropped an entry of the previous ledger and kept another.
C8_Witness ==
    \E a \in DOMAIN accountStates :
        /\ synced[a].live # <<>>
        /\ \E j \in 1..Len(synced[a].previous) :
              synced[a].previous[j].addonId \notin Range(IdsOf(synced[a].live))

\* C9: when a sync ran on the live collection and the library the previous sync of
\* the account saw, the installedAddons list is the one the previous sync left.
C9_SyncIdempotent ==
    \A a \in DOMAIN accountStates :
        synced[a].repeat => Installed(a) = synced[a].previous

\* C9 witness: such a second sync happened on a non-empty collection holding a linked
\* addon.
C9_Witness ==
    \E a \in DOMAIN accountStates :
        /\ synced[a].repeat
        /\ \E i \in 1..Len(Installed(a)) : Installed(a)[i].savedAddonId # NoId

TemplateIds == IdsOf(pure.savedAddons)

\* C3: after a merge under either strategy, a protected addon of the input collection
\* that a template collides with is unchanged at its index, and its id is listed
\* under protected and not under updated.
C3_ProtectedSurvivesMerge ==
    pure.phase = "merged" =>
        \A i \in 1..Len(pure.currentAddons) :
            LET p == pure.currentAddons[i]
            IN  (p.protected /\ p.manifest.id \in Range(TemplateIds)) =>
                    /\ Len(pure.addons) >= i
                    /\ pure.addons[i] = p
                    /\ p.manifest.id \in Range(pure.result.protected)
                    /\ p.manifest.id \notin Range(pure.result.updated)

\* C3 witness: a replace-matching merge met a protected addon at index 2 with a
\* colliding template of another version.
C3_Witness ==
    /\ pure.phase = "merged"
    /\ pure.strategy = "replace-matching"
    /\ Len(pure.currentAddons) = 2
    /\ pure.currentAddons[2].protected
    /\ \E j \in 1..Len(pure.savedAddons) :
          /\ pure.savedAddons[j].manifest.id = pure.currentAddons[2].manifest.id
          /\ pure.savedAddons[j].manifest.version # pure.currentAddons[2].manifest.version

\* The first template carrying this manifest id.
FirstTemplate(id) ==
    CHOOSE j \in 1..Len(TemplateIds) :
        TemplateIds[j] = id /\ \A k \in 1..(j - 1) : TemplateIds[k] # id

\* C4: after a merge every addon of the input collection is at its index (unchanged
\* unless it is recorded as updated, and then replaced there by an addon of the same
\* id), and the added addons follow, one per added id, in template order.
C4_MergeKeepsOrder ==
    pure.phase = "merged" =>
        LET n == Len(pure.currentAddons)
            added == pure.result.added
        IN  /\ Len(pure.addons) = n + Len(added)
            /\ \A i \in 1..n :
                  /\ pure.addons[i].manifest.id = pure.currentAddons[i].manifest.id
                  /\ pure.currentAddons[i].manifest.id \notin Range(pure.result.updated)
                        => pure.addons[i] = pure.currentAddons[i]
            /\ \A j \in 1..Len(added) : pure.addons[n + j].manifest.id = added[j]
            /\ Range(added) = Range(TemplateIds) \ Range(IdsOf(pure.currentAddons))
            /\ \A j, k \in 1..Len(added) :
                  j < k => FirstTemplate(added[j]) < FirstTemplate(added[k])

\* C4 witness: a merge replaced the first of two addons by a different descriptor.
C4_Witness ==
    /\ pure.phase = "merged"
    /\ Len(pure.currentAddons) = 2
    /\ pure.result.updated = <<pure.currentAddons[1].manifest.id>>
    /\ pure.addons[1] # pure.currentAddons[1]

\* C10: removeAddons returns the collection without the requested unprotected addons,
\* the others in their order, and as protectedAddons the requested ids whose
\* descriptor is protected.
C10_RemoveSkipsProtected ==
    pure.phase = "removed" =>
        /\ pure.addons = SelectSeq(pure.currentAddons,
                LAMBDA d : d.protected \/ d.manifest.id \notin Range(pure.addonIds))
        /\ Range(pure.protectedAddons) =
              {id \in Range(pure.addonIds) : IsProtectedIn(pure.currentAddons, id)}

\* C10 witness: [X, Y(protected)] removing [X, Y] gave [Y] and protectedAddons [Y].
C10_Witness ==
    /\ pure.phase = "removed"
    /\ pure.addonIds = <<"X", "Y">>
    /\ Len(pure.currentAddons) = 2
    /\ pure.currentAddons[1].manifest.id = "X"
    /\ ~pure.currentAddons[1].protected
    /\ pure.currentAddons[2].protected
    /\ pure.addons = <<pure.currentAddons[2]>>
    /\ pure.protectedAddons = <<"Y">>

\* ------------------------------------------------- properties of api/addons
\* C11: no removal operation called with the id of a protected addon writes a remote
\* collection that lacks that addon: every protected addon of a remote collection
\* is still in that collection after any step.
C11_ProtectedNeverRemoved ==
    [][\A a \in DOMAIN remote :
          \A i \in 1..Len(remote[a]) :
              remote[a][i].protected => IndexOfId(remote'[a], remote[a][i].manifest.id) # 0]_vars

\* What a finished checkAddonUpdates must return for its input: the addons that are
\* neither protected nor official and whose manifest fetch succeeded, in input order.
ExpectedChecked ==
    SelectSeq(call.input, LAMBDA d : ~d.protected /\ ~d.official /\ d \in call.fetched)

\* C12: checkAddonUpdates never throws, and its result holds, in input order, exactly
\* one UpdateInfo for each input addon that is neither protected nor official and
\* whose manifest fetch succeeded, and nothing else.
C12_UpdateInfoPerFetchedAddon ==
    call.kind = "checkAddonUpdates" =>
        /\ call.pc # "thrown"
        /\ call.pc = "done" =>
              /\ Len(call.results) = Len(ExpectedChecked)
              /\ \A i \in 1..Len(call.results) :
                    /\ call.results[i].addonId = ExpectedChecked[i].manifest.id
                    /\ call.results[i].transportUrl = ExpectedChecked[i].transportUrl
                    /\ call.results[i].installedVersion = ExpectedChecked[i].manifest.version

\* C12 witness: the first checkable addon's fetch failed and the addon after it was
\* still checked and reported.
C12_Witness ==
    /\ call.kind = "checkAddonUpdates"
    /\ call.pc = "done"
    /\ Len(call.pending) = 2
    /\ call.pending[1] \notin call.fetched
    /\ Len(call.results) = 1
    /\ call.results[1].transportUrl = call.pending[2].transportUrl

\* C13 (as claimed): a call of fetchAddonManifest with the default retry setting sends
\* at most 2 requests.
C13_AtMostTwoAttempts ==
    call.kind = "fetchAddonManifest" => call.attempt <= 2

\* C13 (amended): a call of fetchAddonManifest with the default retry setting sends at
\* most retries + 1 = 3 requests, and none after it has failed.
C13_AtMostRetriesPlusOne ==
    call.kind = "fetchAddonManifest" => call.attempt <= DefaultRetries + 1

\* C13 witness: the call failed after its third request.
C13_Witness ==
    /\ call.kind = "fetchAddonManifest"
    /\ call.pc = "thrown"
    /\ call.attempt = 3

\* The reinstall went through remove and install, and the re-fetched manifest kept
\* the addon's id.
ReinstalledSameId ==
    /\ call.kind = "reinstall"
    /\ call.pc = "done"
    /\ call.addonIndex >= 1
    /\ call.newAddon.manifest.id = call.addonId

\* C14: when reinstallAddon completes for a non-protected addon at index i whose
\* re-fetched manifest keeps the same id, the final remote collection has that addon
\* at index i and the other addons as before, in their order.
C14_ReinstallKeepsPosition ==
    ReinstalledSameId =>
        LET final == remote[call.account]
        IN  /\ Len(final) = Len(call.currentAddons)
            /\ final[call.addonIndex] = call.newAddon
            /\ FilterOut(final, call.addonId) = FilterOut(call.currentAddons, call.addonId)
            /\ call.addons = final

\* C14 witness: the reinstalled addon was not the last one, and the reorder was
\* written.
C14_Witness ==
    /\ ReinstalledSameId
    /\ call.addonIndex < Len(call.currentAddons)
    /\ call.addonIndex > 1
    /\ sent.writes = 3

\* C15: when the removal has been written and the re-add (manifest fetch, collection
\* read or collection write of installAddon) fails, reinstallAddon fails and the
\* remote collection is the original collection without the target addon.
C15_FailedReinstallLosesAddon ==
    (call.kind = "reinstall" /\ call.pc = "thrown" /\ call.error \in {"manifest", "inRead", "inWrite"})
        => /\ remote[call.account] = FilterOut(call.currentAddons, call.addonId)
           /\ IndexOfId(remote[call.account], call.addonId) = 0
           /\ IndexOfId(call.currentAddons, call.addonId) # 0

\* C15 witness: the manifest fetch of the re-add failed after the removal was written.
C15_Witness ==
    /\ call.kind = "reinstall"
    /\ call.pc = "thrown"
    /\ call.error = "manifest"
    /\ sent.writes = 1

\* The target of the reinstall was absent from the collection read, or protected in
\* it.
AbsentOrProtected ==
    LET existingAddon == FindById(call.currentAddons, call.addonId)
    IN  existingAddon = NoAddon \/ existingAddon.protected

\* C16: reinstallAddon for an addon id that is absent or protected performs one remote
\* read and no remote write, leaves the remote collection unchanged and returns the
\* collection it read with updatedAddon = null.
C16_SkippedReinstallIsNoOp ==
    (call.kind = "reinstall" /\ call.pc \notin {"read", "thrown"} /\ AbsentOrProtected) =>
        /\ call.pc = "done"
        /\ sent.reads = 1
        /\ sent.writes = 0
        /\ remote[call.account] = call.currentAddons
        /\ call.addons = call.currentAddons
        /\ call.updatedAddon = NoAddon

\* C16 witness: a reinstall of a protected addon returned.
C16_Witness ==
    /\ call.kind = "reinstall"
    /\ call.pc = "done"
    /\ FindById(call.currentAddons, call.addonId) # NoAddon
    /\ FindById(call.currentAddons, call.addonId).protected

\* ---------------------------------------------- properties of the whole store
TagMatchesNothing(lib, tag) ==
    \A s \in DOMAIN lib :
        \A i \in 1..Len(lib[s].tags) : normalizeTagName(lib[s].tags[i]) # normalizeTagName(tag)

\* C17: a tag-based operation called with a tag whose normalized form matches no tag
\* of any saved addon throws the 'no saved addons found with tag' error at once: no
\* request is in flight, no account was attempted, and library, accountStates and
\* the remote collections are as before the call.
C17_UnknownTagFailsFast ==
    [][(now' # now /\ op'.tag # "" /\ TagMatchesNothing(library, op'.tag)) =>
          /\ op'.pc = "thrown"
          /\ op'.error = "No saved addons found with tag"
          /\ \A a \in Accounts : step'[a] = "idle"
          /\ attempts' = <<>>
          /\ library' = library
          /\ accountStates' = accountStates
          /\ remote' = remote]_vars

\* C17 witness: with an unlocked app and a library that is not empty, a tag-based
\* operation failed on the unknown tag.
C17_Witness ==
    /\ op.pc = "thrown"
    /\ op.tag = "T2"
    /\ op.error = "No saved addons found with tag"
    /\ DOMAIN library # {}
    /\ ~locked

\* C18: deleteSavedAddon removes only the library entry: the step that deletes an
\* entry sends no request and leaves accountStates, the persisted account states and
\* every remote collection unchanged.
C18_DeleteOnlyTouchesLibrary ==
    [][(DOMAIN library' # DOMAIN library /\ DOMAIN library' \subseteq DOMAIN library) =>
          /\ Cardinality(DOMAIN library') = Cardinality(DOMAIN library) - 1
          /\ \A s \in DOMAIN library' : library'[s] = library[s]
          /\ accountStates' = accountStates
          /\ storedStates' = storedStates
          /\ remote' = remote
          /\ step' = step
          /\ op' = op]_vars

\* C18 witness: a ledger entry still names a saved addon that was deleted.
C18_Witness ==
    \E a \in DOMAIN accountStates :
        \E i \in 1..Len(Installed(a)) :
            /\ Installed(a)[i].savedAddonId # NoId
            /\ Installed(a)[i].savedAddonId \notin DOMAIN library

\* C19: while the app is locked, applySavedAddonToAccount, applyTagToAccount and
\* syncAccountState reject at once without a request (with the locked error when
\* their saved addons were found), and a bulk iteration that starts sends no request
\* and records its account as failed with the locked error.
C19_LockedFailsBeforeRemote ==
    [][locked =>
          /\ (now' # now /\ op'.kind \in {"applyOne", "applyTagOne", "sync"}) =>
                /\ op'.pc = "thrown"
                /\ \A a \in Accounts : step'[a] \notin InFlightSteps
                /\ remote' = remote
                /\ (op'.kind = "sync" \/ op'.savedAddons # <<>>) => op'.error = "App is locked"
          /\ Len(attempts') = Len(attempts) + 1 =>
                LET a == attempts'[Len(attempts')]
                IN  /\ step'[a] = "failed"
                    /\ \A x \in Accounts : step'[x] \notin InFlightSteps
                    /\ remote' = remote
                    /\ result'.failed = result.failed + 1
                    /\ result'.success = result.success
                    /\ result'.errors[Len(result'.errors)] =
                           [accountId |-> a, error |-> "App is locked"]]_vars

\* C19 witness: a bulk operation run while locked recorded its account as failed
\* with the locked error, and the remote collection is as it was.
C19_Witness ==
    /\ locked
    /\ op.kind \in BulkKinds
    /\ op.pc = "done"
    /\ result.success = 0
    /\ result.failed = 1
    /\ result.errors[1].error = "App is locked"
    /\ remote[1] \in InitCollections

\* ------------------------------------------------------ properties of sync all
\* C20: syncAllAccounts and syncAllAccountStates attempt every account and do not
\* throw when an account fails; after syncAllAccounts an account whose fetch failed
\* has status 'error' and the addons it had before, and an account whose fetch
\* succeeded has status 'active' and the fetched addons.
C20_SyncAllIsolatesFailures ==
    /\ op.kind = "syncAll" => op.pc # "thrown"
    /\ (op.kind = "syncAll" /\ op.pc = "done") => attempts = op.accounts
    /\ call.kind = "syncAllAccounts" => call.pc # "thrown"
    /\ (call.kind = "syncAllAccounts" /\ call.pc = "done") =>
          /\ Len(call.results) = Cardinality(DOMAIN accounts)
          /\ \A i \in 1..Len(call.results) :
                LET a == call.results[i].account
                IN  /\ a = i
                    /\ IF call.results[i].ok
                       THEN /\ accounts[a].status = "active"
                            /\ accounts[a].addons = call.results[i].addons
                       ELSE /\ accounts[a].status = "error"
                            /\ accounts[a].addons = call.input[a]

\* C20 witness: syncAllAccounts returned after the first account's fetch failed and
\* a later one succeeded; the failed account keeps addons that differ from its
\* remote collection.
C20_Witness ==
    /\ call.kind = "syncAllAccounts"
    /\ call.pc = "done"
    /\ ~call.results[1].ok
    /\ call.results[2].ok
    /\ accounts[1].addons # remote[1]
    /\ accounts[2].status = "active"

\* --------------------------------------- one account, store and api together
\* The bulk operations of the addon store and the install, removal and reinstall of
\* the account store on one unlocked account; nothing keeps a call of the one from
\* starting while an operation of the other awaits the service.
\* The library holds two saved addons with the same install URL.
CollectionLibrary ==
    [s \in {1, 2} |-> IF s = 1 THEN SavedAddon(1, "u1", "v2", <<>>, Never)
                                ELSE SavedAddon(2, "u1", "v2", <<"t1">>, Never)]

InitCollection ==
    /\ library = CollectionLibrary
    /\ storedLibrary = library
    /\ accountStates = [a \in {} |-> 0]
    /\ storedStates = [a \in {} |-> 0]
    /\ locked = FALSE
    /\ now = 1
    /\ op = IdleOp
    /\ result = EmptyBulkResult
    /\ step = [a \in Accounts |-> "idle"]
    /\ local = [a \in Accounts |-> NoLocal]
    /\ attempts = <<>>
    /\ stepFailed = {}
    /\ synced = [a \in Accounts |-> NoSync]
    /\ EditInit
    /\ remote = [a \in {1} |-> ThreeAddons]
    /\ budget = MaxOps + 1
    /\ pure = PureOff
    /\ ApiInit

NextCollection ==
    \/ \E ids \in SavedIdLists, accts \in AccountLists, st \in Strategies :
          BulkApplyStart(ids, accts, st)
    \/ \E ids \in AddonIdLists, accts \in AccountLists : BulkRemoveStart(ids, accts)
    \/ StartAccount
    \/ \E a \in Managed : FetchOk(a)
    \/ \E a \in Managed : FetchFail(a)
    \/ \E a \in Managed : WriteOk(a)
    \/ \E a \in Managed : WriteFail(a)
    \/ \E a \in Managed : SyncFetchOk(a)
    \/ \E a \in Managed : SyncFetchFail(a)
    \/ Finish
    \/ \E a \in Managed, id \in ApiIds : ReinstallStart(a, id)
    \/ ReinstallLocated
    \/ \E a \in Managed, id \in ApiIds : RemoveAddonFromAccountStart(a, id)
    \/ \E a \in Managed, url \in Urls : InstallAddonToAccountStart(a, url)
    \/ RemoveRead
    \/ RemoveWritten
    \/ \E id \in ApiIds : ManifestFetched(id, "v2")
    \/ InstallRead
    \/ InstallWritten
    \/ ReorderWritten
    \/ FinalRead
    \/ CallFail

SpecCollection == InitCollection /\ [][NextCollection]_vars

\* ------------------------------------------------- addon store: library edits
\* Tags and tag lists as a caller passes them: written with capitals and blanks,
\* blank, repeated.
RawTags == TagInputs \cup {"  "}
TagLists == {<<>>, <<"t1">>, <<" T1 ", "t1">>, <<"  ", "T2">>}

\* tags.map(normalizeTagName).filter(Boolean)
NormalizedTags(tags) ==
    SelectSeq([i \in 1..Len(tags) |-> normalizeTagName(tags[i])], LAMBDA t : t # "")

\* createSavedAddon(name, installUrl, tags, existingManifest): the new saved addon
\* is added to a copy of the library, which is set and saved.
CreateSavedAddon(installUrl, version, tags) ==
    /\ ~Runnable
    /\ budget > 0
    /\ budget' = budget - 1
    /\ library' = Put(library, nextId,
                      SavedAddon(nextId, installUrl, version, NormalizedTags(tags), Never))
    /\ storedLibrary' = library'
    /\ nextId' = nextId + 1
    /\ UNCHANGED <<accountStates, storedStates, remote, locked, now, op, result, step,
                   local, attempts, stepFailed, synced, pure, apiVars, health, imported>>

\* The updates updateSavedAddon is given: new tags, or a new name only.
Updates == [tags : TagLists] \cup {[name |-> "renamed"]}

\* updateSavedAddon(id, updates) for a saved addon of the library: the updated copy
\* replaces the entry in a copy of the library, which is set and saved.
UpdateSavedAddon(id, updates) ==
    /\ ~Runnable
    /\ budget > 0
    /\ id \in DOMAIN library
    /\ budget' = budget - 1
    /\ library' = IF "tags" \in DOMAIN updates
                  THEN [library EXCEPT ![id].tags = NormalizedTags(updates.tags)]
                  ELSE library
    /\ storedLibrary' = library'
    /\ UNCHANGED <<accountStates, storedStates, remote, locked, now, op, result, step,
                   local, attempts, stepFailed, synced, pure, apiVars, editVars>>

\* savedAddon.tags.findIndex(t => normalizeTagName(t) === normalizedOld), 0 for -1
TagIndex(tags, normalizedOld) ==
    IF \E i \in 1..Len(tags) : normalizeTagName(tags[i]) = normalizedOld
    THEN CHOOSE i \in 1..Len(tags) :
            /\ normalizeTagName(tags[i]) = normalizedOld
            /\ \A j \in 1..(i - 1) : normalizeTagName(tags[j]) # normalizedOld
    ELSE 0

\* renameTag(oldTag, newTag) with a valid new name: in every saved addon the first
\* tag that is the old one is overwritten; the library is set and saved when a tag
\* was changed. (Taken while no health check is in progress: the tag arrays are
\* written in place.)
RenameTag(oldTag, newTag) ==
    LET normalizedOld == normalizeTagName(oldTag)
        normalizedNew == normalizeTagName(newTag)
        hasChanges == \E s \in DOMAIN library : TagIndex(library[s].tags, normalizedOld) # 0
    IN  /\ ~Runnable
        /\ health.pc = "idle"
        /\ budget > 0
        /\ normalizedNew # ""
        /\ budget' = budget - 1
        /\ library' = [s \in DOMAIN library |->
                          LET tagIndex == TagIndex(library[s].tags, normalizedOld)
                          IN  IF tagIndex # 0
                              THEN [library[s] EXCEPT !.tags[tagIndex] = normalizedNew]
                              ELSE library[s]]
        /\ storedLibrary' = IF hasChanges THEN library' ELSE storedLibrary
        /\ UNCHANGED <<accountStates, storedStates, remote, locked, now, op, result, step,
                       local, attempts, stepFailed, synced, pure, apiVars, editVars>>

\* The savedAddons of an export file: an entry as exportLibrary wrote it, and an
\* entry whose tags were written by hand.
ExportFiles ==
    { <<SavedAddon(1, "u2", "v1", <<"t2">>, Never)>>,
      <<SavedAddon(2, "u3", "v1", <<"T2", "T2">>, Never)>> }

\* The entries of a file under the ids they are stored with.
Stored(savedAddons, ids) ==
    [s \in {ids[i] : i \in 1..Len(savedAddons)} |->
        LET i == CHOOSE k \in 1..Len(savedAddons) :
                    /\ ids[k] = s
                    /\ \A j \in (k + 1)..Len(savedAddons) : ids[j] # s
        IN  [savedAddons[i] EXCEPT !.id = s]]

Merged(lib, entries) ==
    [s \in (DOMAIN lib) \cup (DOMAIN entries) |->
        IF s \in DOMAIN entries THEN entries[s] ELSE lib[s]]

\* importLibrary(json, merge): the file's saved addons are put into a copy of the
\* library (merge, under new ids) or into an empty one (under their own ids), which
\* is set and saved.
ImportLibrary(savedAddons, merge) ==
    LET ids == [i \in 1..Len(savedAddons) |->
                   IF merge THEN nextId + i - 1 ELSE savedAddons[i].id]
        base == IF merge THEN library ELSE [s \in {} |-> 0]
    IN  /\ ~Runnable
        /\ budget > 0
        /\ budget' = budget - 1
        /\ library' = Merged(base, Stored(savedAddons, ids))
        /\ storedLibrary' = library'
        /\ nextId' = IF merge THEN nextId + Len(savedAddons) ELSE nextId
        /\ UNCHANGED <<accountStates, storedStates, remote, locked, now, op, result, step,
                       local, attempts, stepFailed, synced, pure, apiVars, health, imported>>

\* importAccounts(json) of the account store for a file with saved addons and no
\* account: the persisted library is loaded, the file's saved addons are added
\* under new ids, and the result is saved; the addon store is not told.
ImportAccounts(savedAddons) ==
    LET ids == [i \in 1..Len(savedAddons) |-> nextId + i - 1]
    IN  /\ ApiIdle
        /\ budget > 0
        /\ budget' = budget - 1
        /\ storedLibrary' = Merged(storedLibrary, Stored(savedAddons, ids))
        /\ nextId' = nextId + Len(savedAddons)
        /\ imported' = imported \cup Range(ids)
        /\ UNCHANGED <<library, accountStates, storedStates, remote, locked, now, op,
                       result, step, local, attempts, stepFailed, synced, pure, apiVars,
                       health>>

\* initialize(): the library and the account states are loaded from storage.
Initialize ==
    /\ ~Runnable
    /\ budget > 0
    /\ budget' = budget - 1
    /\ library' = storedLibrary
    /\ accountStates' = storedStates
    /\ UNCHANGED <<storedLibrary, storedStates, remote, locked, now, op, result, step,
                   local, attempts, stepFailed, synced, pure, apiVars, editVars>>

\* checkAllHealth() up to its await: the saved addons of the library are captured
\* and handed to checkAllAddonsHealth.
CheckAllHealthStart ==
    /\ health.pc = "idle"
    /\ budget > 0
    /\ budget' = budget - 1
    /\ health' = [pc |-> "checking", addons |-> library]
    /\ UNCHANGED <<library, storedLibrary, accountStates, storedStates, remote, locked,
                   now, op, result, step, local, attempts, stepFailed, synced, pure,
                   apiVars, nextId, imported>>

\* checkAllAddonsHealth (lib/addon-health) answers with the captured saved addons,
\* each with its health field set (a field this model does not carry): a library of
\* exactly these is set and saved.
CheckAllHealthDone ==
    /\ health.pc = "checking"
    /\ library' = health.addons
    /\ storedLibrary' = library'
    /\ health' = NoHealthCheck
    /\ UNCHANGED <<accountStates, storedStates, remote, locked, now, op, result, step,
                   local, budget, attempts, stepFailed, synced, pure, apiVars, nextId,
                   imported>>

\* checkAllAddonsHealth rejects: the error is logged, the library is left alone.
CheckAllHealthFailed ==
    /\ health.pc = "checking"
    /\ health' = NoHealthCheck
    /\ UNCHANGED <<library, storedLibrary, accountStates, storedStates, remote, locked,
                   now, op, result, step, local, budget, attempts, stepFailed, synced,
                   pure, apiVars, nextId, imported>>

\* The library of an addon store that manages one account.
InitLibrary ==
    /\ StoreInit
    /\ remote = [a \in {1} |-> WithoutProtected]
    /\ budget = MaxOps + 1
    /\ pure = PureOff
    /\ ApiInit

\* The edits of the library the claims name.
LibraryMutation ==
    \/ \E tags \in TagLists : CreateSavedAddon("u3", "v1", tags)
    \/ \E id \in SavedIds, updates \in Updates : UpdateSavedAddon(id, updates)
    \/ \E oldTag \in TagInputs, newTag \in RawTags : RenameTag(oldTag, newTag)
    \/ \E id \in SavedIds : DeleteSavedAddon(id)

NextLibrary ==
    \/ LibraryMutation
    \/ \E savedAddons \in ExportFiles, merge \in BOOLEAN : ImportLibrary(savedAddons, merge)
    \/ \E savedAddons \in ExportFiles : ImportAccounts(savedAddons)
    \/ Initialize
    \/ CheckAllHealthStart
    \/ CheckAllHealthDone
    \/ CheckAllHealthFailed

SpecLibrary == InitLibrary /\ [][NextLibrary]_vars

\* ------------------------------------------------------------ C21 .. C30
\* The reinstall went through remove and install.
ReinstalledActually ==
    /\ call.kind = "reinstall"
    /\ call.pc = "done"
    /\ call.addonIndex >= 1

C22_CarriedEntryKeepsFields ==
    \A a \in DOMAIN accountStates :
        \A i \in 1..Len(synced[a].live) :
            HadEntry(a, i) =>
                LET e == IndexOfAddonId(synced[a].previous, synced[a].live[i].manifest.id)
                IN  Installed(a)[i] =
                        [synced[a].previous[e] EXCEPT
                            !.installUrl = synced[a].live[i].transportUrl]

\* C22 witness: a carried entry got a new installUrl that is a library entry's, and
\* stays unlinked, with the installedAt of an earlier sync.
C22_Witness ==
    \E a \in DOMAIN accountStates :
        \E i \in 1..Len(synced[a].live) :
            /\ HadEntry(a, i)
            /\ LET e == IndexOfAddonId(synced[a].previous, synced[a].live[i].manifest.id)
               IN  /\ synced[a].previous[e].installUrl # synced[a].live[i].transportUrl
                   /\ Installed(a)[i].installedAt = synced[a].previous[e].installedAt
            /\ MatchingSaved(synced[a].lib, synced[a].live[i].transportUrl) # {}
            /\ Installed(a)[i].savedAddonId = NoId
            /\ Installed(a)[i].installedAt < now

\* C23 (as claimed): when reinstallAddon has actually reinstalled, its last remote
\* call was a collection read, and the addons it returns are the collection the
\* service holds, whether the addon was the last one or not.
C23_ReinstallEndsWithRead ==
    ReinstalledActually =>
        /\ sent.last = "read"
        /\ call.addons = remote[call.account]

\* C24: in fetchAddonManifest a 404 answer is the last request of the call, which
\* then fails; any other error is followed by a new attempt until retries + 1
\* attempts have been made.
C24_NotFoundEndsOthersRetry ==
    call.kind = "fetchAddonManifest" =>
        /\ \A i \in 1..Len(call.results) :
              call.results[i] = "404" => (i = Len(call.results) /\ call.pc = "thrown")
        /\ call.pc = "attempt" => call.attempt = Len(call.results) + 1
        /\ (call.pc = "thrown" /\ call.results[Len(call.results)] # "404") =>
              Len(call.results) = DefaultRetries + 1

\* C24 witness: a network error was retried, and the 404 that answered the second
\* attempt ended the call before the bound.
C24_Witness ==
    /\ call.kind = "fetchAddonManifest"
    /\ call.pc = "thrown"
    /\ call.results = <<"network", "404">>
    /\ call.attempt = 2
    /\ call.error = "Addon manifest not found at this URL"

\* C30 (as claimed): when installAddonToAccount has completed, every addon that was
\* protected in the collection before the install is at its place, unchanged.
C30_InstallKeepsProtected ==
    (call.kind = "installToAccount" /\ call.pc = "done") =>
        \A i \in 1..Len(call.currentAddons) :
            call.currentAddons[i].protected =>
                /\ i <= Len(remote[call.account])
                /\ remote[call.account][i] = call.currentAddons[i]

\* C28 (as claimed): the step on which bulkApplySavedAddons returns changes nothing
\* in the library but the lastUsed of the templates it applied: the library keeps
\* its entries, an entry deleted while the loop ran stays deleted, and every other
\* field of every entry is as it was.
C28_BulkApplyOnlyStamps ==
    [][(op.kind = "apply" /\ op.pc = "loop" /\ op'.pc = "done") =>
          /\ DOMAIN library' = DOMAIN library
          /\ \A s \in DOMAIN library :
                /\ library'[s] = [library[s] EXCEPT !.lastUsed = library'[s].lastUsed]
                /\ s \notin {op.savedAddons[i].id : i \in 1..Len(op.savedAddons)} =>
                      library'[s] = library[s]]_vars

\* C29 (as claimed): when a bulk apply with replace-matching and a removal of an
\* addon that is none of the applied templates' have both succeeded on the account,
\* whichever way their steps were interleaved, the remote collection reflects both:
\* the removed addon is absent and every template's manifest is installed.
C29_BothUpdatesKept ==
    LET templateIds == {op.savedAddons[i].manifest.id : i \in 1..Len(op.savedAddons)}
        final == remote[call.account]
    IN  ( /\ op.kind = "apply"
          /\ op.pc = "done"
          /\ op.strategy = "replace-matching"
          /\ result.success = 1
          /\ call.kind = "removeFromAccount"
          /\ call.pc = "done"
          /\ call.addonId \notin templateIds
          /\ budget = MaxOps - 1 )
        => /\ call.addonId \notin Range(IdsOf(final))
           /\ \A i \in 1..Len(op.savedAddons) :
                 \E j \in 1..Len(final) : final[j].manifest = op.savedAddons[i].manifest

\* C25 (as claimed): the tags of every saved addon of the library are pairwise
\* different, non-empty and normalized, after any run of createSavedAddon,
\* updateSavedAddon, renameTag and importLibrary.
C25_TagsAreNormalizedSets ==
    \A s \in DOMAIN library :
        LET tags == library[s].tags
        IN  /\ \A i, j \in 1..Len(tags) : tags[i] = tags[j] => i = j
            /\ \A i \in 1..Len(tags) : tags[i] # "" /\ normalizeTagName(tags[i]) = tags[i]

\* C26 (as claimed): a saved addon that importAccounts has persisted is still in
\* the persisted library after a later createSavedAddon, updateSavedAddon, renameTag
\* or deleteSavedAddon of another entry.
C26_ImportedSurviveEdits ==
    [][LibraryMutation =>
          \A s \in imported : s \in DOMAIN storedLibrary => s \in DOMAIN storedLibrary']_vars

\* C27 (as claimed): the step on which checkAllHealth completes changes nothing in
\* the library but the health of its saved addons: what was created, edited or
\* deleted while the check ran is still so, in memory and in storage.
C27_HealthCheckOnlySetsHealth ==
    [][CheckAllHealthDone => (library' = library /\ storedLibrary' = library)]_vars

====
